---------------------------- MODULE Spec2Model ----------------------------
(***************************************************************************)
(* A model of TECA's NetCDF CF reader (teca_cf_reader), of the transform   *)
(* stages teca_vorticity / teca_vertical_integral / teca_cartesian_mesh_   *)
(* subset and of teca_dataset_diff, as state machines over the stage       *)
(* contract: report metadata, translate request, execute.                  *)
(*                                                                         *)
(* teca_metadata is modelled as a function from the keys that are set to   *)
(* their values; the empty metadata is the function with no key.           *)
(***************************************************************************)
EXTENDS Integers, Sequences, FiniteSets, TLC

\* ------------------------------------------------------------------ bounds
MaxFiles == 2
MaxSteps == 2
MaxRanks == 3
MaxBcast == 2
MaxReqStep == 4
MaxMods == 1
MaxRows == 2

\* the most work indices of a pipeline run
MaxIndices == 7

\* -------------------------------------------------------- teca_metadata
EmptyMD == [k \in {} |-> {}]

IsEmpty(md) == DOMAIN md = {}

Has(md, k) == k \in DOMAIN md

MdSet(md, k, v) == [x \in (DOMAIN md) \cup {k} |-> IF x = k THEN v ELSE md[x]]

MdRemove(md, k) == [x \in (DOMAIN md) \ {k} |-> md[x]]

Range(s) == {s[i] : i \in DOMAIN s}

RECURSIVE SumSeq(_)
SumSeq(s) == IF s = <<>> THEN 0 ELSE Head(s) + SumSeq(Tail(s))

RECURSIVE Flatten(_)
Flatten(ss) == IF ss = <<>> THEN <<>> ELSE Head(ss) \o Flatten(Tail(ss))

\* ------------------------------------------------- the input files (NetCDF)
\* The variables of a file with their dimension names, as
\* read_variable_attributes reports them in cf_dim_names.
NcDimNames ==
    [lon  |-> <<"lon">>,
     lat  |-> <<"lat">>,
     plev |-> <<"plev">>,
     time |-> <<"time">>,
     T    |-> <<"time", "lat", "lon">>,
     Tx   |-> <<"time", "lon">>,
     u    |-> <<"time", "lat", "lon">>,
     v    |-> <<"time", "lat", "lon">>,
     ps   |-> <<"time", "lat", "lon">>,
     Q    |-> <<"time", "plev", "lat", "lon">>,
     a_bnds |-> <<"ilev">>,
     b_bnds |-> <<"ilev">>]

NcVars == DOMAIN NcDimNames

\* coordinate values stored in the files
NcCoord ==
    [lon  |-> <<0, 10, 20>>,
     lat  |-> <<-10, 10>>,
     plev |-> <<1000, 500>>]

Calendars == {"", "noleap", "standard"}
Units == {"", "days", "hours"}

HoursPer(u) == IF u = "hours" THEN 1 ELSE 24

\* the time values stored in the k-th file (1 based) holding n steps: the day
\* numbers 10k+1 .. 10k+n expressed in the file's own units
FileTime(k, n, u) == [j \in 1..n |-> (10 * k + j) * (24 \div HoursPer(u))]

FileKinds == [n : 0..MaxSteps, calendar : {"", "noleap"}, units : {"days", "hours"}]

\* a dataset: one record per file, in file order
Datasets == UNION {[1..m -> FileKinds] : m \in 1..MaxFiles}


\* -------------------------------------------------- reader properties
PATH == "root"

FileName(k) == IF k = 1 THEN "f1" ELSE IF k = 2 THEN "f2" ELSE IF k = 3 THEN "f3" ELSE "f4"

FileNames(m) == [k \in 1..m |-> FileName(k)]

TValues(n) == [i \in 1..n |-> 100 + i]

\* the property values set by the constructor
Defaults ==
    [file_names |-> <<>>,
     files_regex |-> "re",
     metadata_cache_dir |-> "",
     x_axis_variable |-> "lon",
     y_axis_variable |-> "lat",
     z_axis_variable |-> "",
     t_axis_variable |-> "time",
     t_calendar |-> "",
     t_units |-> "",
     filename_time_template |-> "",
     t_values |-> <<>>,
     periodic_in_x |-> 0,
     periodic_in_y |-> 0,
     periodic_in_z |-> 0,
     thread_pool_size |-> -1,
     cache_metadata |-> 1]

\* the values a property is given in the model
PropValues ==
    [file_names |-> {<<>>} \cup {FileNames(m) : m \in 1..MaxFiles},
     files_regex |-> {"re", "nomatch"},
     metadata_cache_dir |-> {"", "udir"},
     x_axis_variable |-> {"lon", "bad"},
     y_axis_variable |-> {"lat", ""},
     z_axis_variable |-> {"", "plev"},
     t_axis_variable |-> {"time", ""},
     t_calendar |-> {"", "noleap"},
     t_units |-> {"", "days"},
     filename_time_template |-> {"", "%Y", "badfmt"},
     t_values |-> {TValues(n) : n \in 0..2},
     periodic_in_x |-> {0, 1},
     periodic_in_y |-> {0, 1},
     periodic_in_z |-> {0, 1},
     thread_pool_size |-> {-1, 2},
     cache_metadata |-> {0, 1}]

PropNames == DOMAIN Defaults

\* ------------------------------------------------------ the time axis
Fail == [ok |-> FALSE]

\* attributes of the time variable in file f: only the attributes the file
\* carries are present
TimeAtts(f) ==
    LET a0 == IF f.calendar = "" THEN EmptyMD ELSE MdSet(EmptyMD, "calendar", f.calendar)
    IN  IF f.units = "" THEN a0 ELSE MdSet(a0, "units", f.units)

AttOr(a, k, dflt) == IF Has(a, k) THEN a[k] ELSE dflt

\* calcalcs::date followed by calcalcs::coordinate: the offset v in units
\* `from` expressed in units `to`, both counted from the same epoch
ConvertUnits(v, from, to) == (v * HoursPer(from)) \div HoursPer(to)

\* lines 567-630: the attributes of the time variable of the first file with
\* the calendar and units overrides applied, before the default calendar is set
BaseTimeAtts(p, f) ==
    LET ta0 == TimeAtts(f)
        ta1 == IF p.t_calendar # "" THEN MdSet(ta0, "calendar", p.t_calendar) ELSE ta0
    IN  IF p.t_units # "" THEN MdSet(ta1, "units", p.t_units) ELSE ta1

\* a check that compares a file's calendar with the base calendar only when
\* the first file has one
CalendarMismatch_BaseOnly(has_calendar, base_calendar, f) ==
    has_calendar /\ f.calendar # base_calendar

\* lines 675-685: the calendar check of file f
CalendarMismatch(has_calendar, base_calendar, f) ==
    \/ (~has_calendar /\ f.calendar # "")
    \/ (has_calendar /\ f.calendar # base_calendar)

\* lines 687-766: the time values of the i-th file in the base units
FileTimeIn(i, f, base_units) ==
    IF f.units = base_units THEN FileTime(i, f.n, f.units)
    ELSE [j \in 1..f.n |-> ConvertUnits(FileTime(i, f.n, f.units)[j], f.units, base_units)]

\* lines 632-789 given the base attributes ta, has_calendar and has_units
FromFilesWith(p, ds, ta, has_calendar, has_units, base_calendar, base_units, t_read) ==
    IF \E i \in 1..Len(ds) :
           \/ ds[i].n = 0
           \/ CalendarMismatch(has_calendar, base_calendar, ds[i])
           \/ (ds[i].units # base_units /\ ~has_units)
    THEN Fail
    ELSE IF p.t_values # <<>> /\ Len(p.t_values) # Len(t_read) THEN Fail
    ELSE [ok |-> TRUE,
          t |-> IF p.t_values # <<>> THEN p.t_values ELSE t_read,
          step_count |-> [i \in 1..Len(ds) |-> ds[i].n],
          t_variable |-> p.t_axis_variable,
          time_atts |-> ta]

FromFilesBase(p, ds, ta, has_calendar, has_units, base_calendar, base_units) ==
    FromFilesWith(p, ds,
        IF has_calendar THEN ta ELSE MdSet(ta, "calendar", "standard"),
        has_calendar, has_units, base_calendar, base_units,
        Flatten([i \in 1..Len(ds) |-> FileTimeIn(i, ds[i], base_units)]))

FromFilesAtts(p, ds, ta) ==
    FromFilesBase(p, ds, ta, Has(ta, "calendar"), Has(ta, "units"),
        AttOr(ta, "calendar", "standard"), AttOr(ta, "units", ""))

\* the orders the tasks of the thread pool may complete in: order[k] is the
\* k-th task to complete among those of the files 1..MaxFiles
TaskOrders ==
    {o \in [1..MaxFiles -> 1..MaxFiles] : \A i, j \in 1..MaxFiles : o[i] = o[j] => i = j}

\* lines 632-641: the task of the i-th file yields the file's index with the
\* time values and attributes read from it
read_variable_and_attributes(i, f) == [first |-> i, second |-> f]

\* lines 643-646: wait_all collects the results in the order of completion
wait_all(ds, order) ==
    [k \in 1..Len(ds) |->
        read_variable_and_attributes(
            SelectSeq(order, LAMBDA i : i <= Len(ds))[k],
            ds[SelectSeq(order, LAMBDA i : i <= Len(ds))[k]])]

\* results taken in the order they completed in
time_arrays_Unsorted(tmp) == [i \in 1..Len(tmp) |-> tmp[i].second]

\* lines 648-651: the std::map keyed by the file index
time_arrays(tmp) ==
    [i \in 1..Len(tmp) |-> (CHOOSE e \in Range(tmp) : e.first = i).second]

\* strategy 1, the time axis is read from the files
TimeAxisFromFiles(p, ds, order) ==
    FromFilesAtts(p, time_arrays(wait_all(ds, order)), BaseTimeAtts(p, ds[1]))

\* a reader that takes time values without a calendar and units
TimeAxisFromValues_NoCalendar(p, ds) ==
    IF Len(p.t_values) # Len(ds) THEN Fail
    ELSE [ok |-> TRUE,
          t |-> p.t_values,
          step_count |-> [i \in 1..Len(p.t_values) |-> 1],
          t_variable |-> "time",
          time_atts |-> MdSet(MdSet(EmptyMD, "calendar", p.t_calendar), "units", p.t_units)]

\* a reader that takes any number of time values
TimeAxisFromValues_Unchecked(p, ds) ==
    IF p.t_calendar = "" \/ p.t_units = "" THEN Fail
    ELSE [ok |-> TRUE,
          t |-> p.t_values,
          step_count |-> [i \in 1..Len(p.t_values) |-> 1],
          t_variable |-> "time",
          time_atts |-> MdSet(MdSet(EmptyMD, "calendar", p.t_calendar), "units", p.t_units)]

\* strategy 2, the user supplies the time values
TimeAxisFromValues(p, ds) ==
    IF p.t_calendar = "" \/ p.t_units = "" THEN Fail
    ELSE IF Len(p.t_values) # Len(ds) THEN Fail
    ELSE [ok |-> TRUE,
          t |-> p.t_values,
          step_count |-> [i \in 1..Len(p.t_values) |-> 1],
          t_variable |-> "time",
          time_atts |-> MdSet(MdSet(EmptyMD, "calendar", p.t_calendar), "units", p.t_units)]

\* strategy 3, the time of a file is inferred from its name: the k-th file
\* is named after day 10k; without t_units the units start at the first file
FromNamesWith(m, t_calendar, t_units, epoch) ==
    [ok |-> TRUE,
     t |-> [i \in 1..m |-> ConvertUnits(10 * i - epoch, "days", t_units)],
     step_count |-> [i \in 1..m |-> 1],
     t_variable |-> "time",
     time_atts |-> MdSet(MdSet(EmptyMD, "calendar", t_calendar), "units", t_units)]

TimeAxisFromNames(p, ds) ==
    IF p.filename_time_template # "%Y" THEN Fail
    ELSE FromNamesWith(Len(ds),
            IF p.t_calendar = "" THEN "standard" ELSE p.t_calendar,
            IF p.t_units = "" THEN "days since f1" ELSE p.t_units,
            IF p.t_units = "" THEN 10 ELSE 0)

\* strategy 4, a synthetic axis with one step per file
TimeAxisSynthetic(p, ds) ==
    [ok |-> TRUE,
     t |-> [i \in 1..Len(ds) |-> i - 1],
     step_count |-> [i \in 1..Len(ds) |-> 1],
     t_variable |-> "time",
     time_atts |-> EmptyMD]

Strategy(p) ==
    IF p.t_axis_variable # "" THEN "files"
    ELSE IF p.t_values # <<>> THEN "values"
    ELSE IF p.filename_time_template # "" THEN "names"
    ELSE "synthetic"

TimeAxis(p, ds, order) ==
    CASE Strategy(p) = "files" -> TimeAxisFromFiles(p, ds, order)
      [] Strategy(p) = "values" -> TimeAxisFromValues(p, ds)
      [] Strategy(p) = "names" -> TimeAxisFromNames(p, ds)
      [] OTHER -> TimeAxisSynthetic(p, ds)

\* ----------------------------------------------- the metadata cache key
\* the bytes of the strings the model uses
Bytes(s) ==
    CASE s = "" -> <<>>
      [] s = "re" -> <<114, 101>>
      [] s = "nomatch" -> <<110, 111, 109, 97, 116, 99, 104>>
      [] s = "udir" -> <<117, 100, 105, 114>>
      [] s = "lon" -> <<108, 111, 110>>
      [] s = "lat" -> <<108, 97, 116>>
      [] s = "bad" -> <<98, 97, 100>>
      [] s = "plev" -> <<112, 108, 101, 118>>
      [] s = "time" -> <<116, 105, 109, 101>>
      [] s = "noleap" -> <<110, 111, 108, 101, 97, 112>>
      [] s = "days" -> <<100, 97, 121, 115>>
      [] s = "%Y" -> <<37, 89>>
      [] s = "badfmt" -> <<98, 97, 100, 102, 109, 116>>
      [] s = "root" -> <<114, 111, 111, 116>>
      [] s = "f1" -> <<102, 49>>
      [] s = "f2" -> <<102, 50>>
      [] s = "f3" -> <<102, 51>>
      [] s = "f4" -> <<102, 52>>
      [] s = "f" -> <<102>>
      [] s = "1" -> <<49>>

\* teca_binary_stream::pack of a string: its length, then its bytes
PackStr(s) == <<Len(Bytes(s))>> \o Bytes(s)

\* pack of a vector of strings: the number of strings, then each string
PackStrs(v) == <<Len(v)>> \o Flatten([i \in 1..Len(v) |-> PackStr(v[i])])

\* pack of a vector of doubles: the number of values, then the values
PackVals(v) == <<Len(v)>> \o v

PackInt(i) == <<i>>

TECA_VERSION_DESCR == <<118>>

\* a key that leaves the calendar out
CacheKey_NoCalendar(p, path, files) ==
    TECA_VERSION_DESCR
    \o PackStr(path) \o PackStrs(files)
    \o PackStr(p.files_regex) \o PackStrs(p.file_names)
    \o PackStr(p.x_axis_variable) \o PackStr(p.y_axis_variable)
    \o PackStr(p.z_axis_variable) \o PackStr(p.t_axis_variable)
    \o PackStr(p.t_units)
    \o PackVals(p.t_values) \o PackStr(p.filename_time_template)
    \o PackInt(p.periodic_in_x) \o PackInt(p.periodic_in_y)
    \o PackInt(p.periodic_in_z)

\* the stream the key is the SHA-1 of; the digest is taken to be injective,
\* so the key is the digested bytes themselves
CacheKey(p, path, files) ==
    TECA_VERSION_DESCR
    \o PackStr(path) \o PackStrs(files)
    \o PackStr(p.files_regex) \o PackStrs(p.file_names)
    \o PackStr(p.x_axis_variable) \o PackStr(p.y_axis_variable)
    \o PackStr(p.z_axis_variable) \o PackStr(p.t_axis_variable)
    \o PackStr(p.t_units) \o PackStr(p.t_calendar)
    \o PackVals(p.t_values) \o PackStr(p.filename_time_template)
    \o PackInt(p.periodic_in_x) \o PackInt(p.periodic_in_y)
    \o PackInt(p.periodic_in_z)

\* ------------------------------------------------ the metadata cache files
\* metadata_cache_path[0..3] = {HOME, ".", path, metadata_cache_dir}
HOME_DIR == 0
CWD_DIR == 1
ROOT_DIR == 2
USER_DIR == 3

CacheDirs == {HOME_DIR, CWD_DIR, ROOT_DIR, USER_DIR}

n_metadata_cache_paths(p) == IF p.metadata_cache_dir = "" THEN 2 ELSE 3

\* a loop that runs from the first directory to the last
CachePathOrder_Forward(p) ==
    [j \in 1..(n_metadata_cache_paths(p) + 1) |-> j - 1]

\* the directories in the order of the loop  for (i = n; i >= 0; --i)
CachePathOrder(p) ==
    [j \in 1..(n_metadata_cache_paths(p) + 1) |-> n_metadata_cache_paths(p) + 1 - j]

FileExists(dsk, d, key) == key \in DOMAIN dsk[d]

\* a lookup that gives up at the first cache file it cannot read
RECURSIVE LookupCache_GiveUp(_, _, _, _)
LookupCache_GiveUp(dsk, key, order, seen) ==
    IF order = <<>> THEN [found |-> FALSE, stream |-> <<>>, examined |-> seen]
    ELSE IF FileExists(dsk, Head(order), key)
         THEN IF dsk[Head(order)][key].readable
              THEN [found |-> TRUE, dir |-> Head(order),
                    stream |-> dsk[Head(order)][key].data,
                    examined |-> Append(seen, Head(order))]
              ELSE [found |-> FALSE, stream |-> <<>>,
                    examined |-> Append(seen, Head(order))]
         ELSE LookupCache_GiveUp(dsk, key, Tail(order), Append(seen, Head(order)))

\* the cache lookup loop: whether a cache file was read, the directory it
\* was read from, the stream read, and the directories examined in order
RECURSIVE LookupCache(_, _, _, _)
LookupCache(dsk, key, order, seen) ==
    IF order = <<>> THEN [found |-> FALSE, stream |-> <<>>, examined |-> seen]
    ELSE IF FileExists(dsk, Head(order), key) /\ dsk[Head(order)][key].readable
         THEN [found |-> TRUE, dir |-> Head(order), stream |-> dsk[Head(order)][key].data,
               examined |-> Append(seen, Head(order))]
         ELSE LookupCache(dsk, key, Tail(order), Append(seen, Head(order)))

\* the cache write loop: the first directory the write succeeds in, or -1
RECURSIVE WriteDir(_, _, _, _)
WriteDir(dsk, wr, key, order) ==
    IF order = <<>> THEN -1
    ELSE IF wr[Head(order)] /\ ~FileExists(dsk, Head(order), key) THEN Head(order)
         ELSE WriteDir(dsk, wr, key, Tail(order))

WriteInto(dsk, d, key, stream) ==
    IF d = -1 THEN dsk
    ELSE [dsk EXCEPT ![d] = MdSet(dsk[d], key, [data |-> stream, readable |-> TRUE])]

WriteCache(dsk, wr, key, order, stream) ==
    WriteInto(dsk, WriteDir(dsk, wr, key, order), key, stream)

\* ------------------------------------- teca_cf_reader::get_output_metadata
\* the files the reader works on: the names given, or the files the regex
\* matches in the data directory
LocateFiles(p, ds) ==
    IF p.file_names # <<>> THEN [ok |-> TRUE, files |-> p.file_names]
    ELSE IF p.files_regex = "re" THEN [ok |-> TRUE, files |-> FileNames(Len(ds))]
    ELSE Fail

\* what the reader finds behind the i-th of its files; a name that is no
\* file of the dataset yields no time values
MissingFile == [n |-> 0, calendar |-> "", units |-> ""]

FilesOf(ds, files) ==
    [i \in 1..Len(files) |-> IF i <= Len(ds) THEN ds[i] ELSE MissingFile]

\* the attributes read_variable_attributes reports for the file's variables
VarAtts(v) == MdSet(EmptyMD, "cf_dim_names", NcDimNames[v])

\* a spatial axis: the named coordinate variable, or a single 0 when the
\* name is empty (y and z only)
AxisOk(name) == name \in DOMAIN NcCoord

Axis(name) == IF name = "" THEN <<0>> ELSE NcCoord[name]

MergeAtts(a, b) == [k \in (DOMAIN a) \cup (DOMAIN b) |-> IF k \in DOMAIN b THEN b[k] ELSE a[k]]

\* a report that counts the files instead of the time values
ReportedMetadata_CountFiles(p, files, atrs, x, y, z, tax) ==
    [variables |-> NcVars,
     attributes |-> atrs,
     whole_extent |-> <<0, Len(x) - 1, 0, Len(y) - 1, 0, Len(z) - 1>>,
     bounds |-> <<x[1], x[Len(x)], y[1], y[Len(y)], z[1], z[Len(z)]>>,
     coordinates |->
         [x_variable |-> p.x_axis_variable,
          y_variable |-> IF p.y_axis_variable = "" THEN "y" ELSE p.y_axis_variable,
          z_variable |-> IF p.z_axis_variable = "" THEN "z" ELSE p.z_axis_variable,
          t_variable |-> tax.t_variable,
          x |-> x, y |-> y, z |-> z, t |-> tax.t,
          periodic_in_x |-> p.periodic_in_x,
          periodic_in_y |-> p.periodic_in_y,
          periodic_in_z |-> p.periodic_in_z],
     files |-> files,
     root |-> PATH,
     step_count |-> tax.step_count,
     number_of_time_steps |-> Len(files),
     index_initializer_key |-> "number_of_time_steps",
     index_request_key |-> "time_step"]

\* lines 971-1000: the metadata reported from the axes read
ReportedMetadata(p, files, atrs, x, y, z, tax) ==
    [variables |-> NcVars,
     attributes |-> atrs,
     whole_extent |-> <<0, Len(x) - 1, 0, Len(y) - 1, 0, Len(z) - 1>>,
     bounds |-> <<x[1], x[Len(x)], y[1], y[Len(y)], z[1], z[Len(z)]>>,
     coordinates |->
         [x_variable |-> p.x_axis_variable,
          y_variable |-> IF p.y_axis_variable = "" THEN "y" ELSE p.y_axis_variable,
          z_variable |-> IF p.z_axis_variable = "" THEN "z" ELSE p.z_axis_variable,
          t_variable |-> tax.t_variable,
          x |-> x, y |-> y, z |-> z, t |-> tax.t,
          periodic_in_x |-> p.periodic_in_x,
          periodic_in_y |-> p.periodic_in_y,
          periodic_in_z |-> p.periodic_in_z],
     files |-> files,
     root |-> PATH,
     step_count |-> tax.step_count,
     number_of_time_steps |-> Len(tax.t),
     index_initializer_key |-> "number_of_time_steps",
     index_request_key |-> "time_step"]

\* the attributes with those of the time axis saved (lines 630, 821, 939)
AttsWithTime(p, atrs, tax) ==
    IF Strategy(p) = "files"
    THEN [atrs EXCEPT ![p.t_axis_variable] = MergeAtts(@, tax.time_atts)]
    ELSE IF Strategy(p) = "synthetic" THEN atrs
    ELSE [atrs EXCEPT !["time"] = tax.time_atts]

ScanWith(p, files, tax) ==
    IF ~AxisOk(p.x_axis_variable) THEN Fail
    ELSE IF p.y_axis_variable # "" /\ ~AxisOk(p.y_axis_variable) THEN Fail
    ELSE IF p.z_axis_variable # "" /\ ~AxisOk(p.z_axis_variable) THEN Fail
    ELSE IF ~tax.ok THEN Fail
    ELSE [ok |-> TRUE,
          md |-> ReportedMetadata(p, files,
                    AttsWithTime(p, [v \in NcVars |-> VarAtts(v)], tax),
                    Axis(p.x_axis_variable), Axis(p.y_axis_variable),
                    Axis(p.z_axis_variable), tax)]

\* the scan of the files, lines 337-1000: the reported metadata, or Fail
ScanFiles(p, ds, files, order) ==
    ScanWith(p, files, TimeAxis(p, FilesOf(ds, files), order))

\* teca_metadata::to_stream appends the serialized metadata to the stream,
\* from_stream reads the first metadata of the stream
ToStream(stream, md) == Append(stream, md)

FromStream(stream) == IF stream = <<>> THEN EmptyMD ELSE Head(stream)

\* what a call of the root rank amounts to:
\*   md       what the rank returns, which is internals->metadata afterwards
\*   stream   the stream handed to the broadcast
\*   bcast    whether the broadcast is reached
\*   disk     the cache files afterwards
\*   effects  what the call did; "error" when it logged a TECA_ERROR
\*   examined the directories looked into, in order
\*   loaded   the directory the cache was loaded from, or -1
Outcome(md, stream, bcast, dsk, fx, examined, ldir) ==
    [md |-> md, stream |-> stream, bcast |-> bcast, disk |-> dsk,
     effects |-> fx, examined |-> examined, loaded |-> ldir]

\* lines 337-1030, the cache gave nothing: scan, and write the cache
ReportScanned(p, dsk, wr, key, look, scan) ==
    IF ~scan.ok
    THEN Outcome(EmptyMD, <<>>, FALSE, dsk,
            {"files", "open", "scan", "error"}
                \cup (IF p.cache_metadata # 0 THEN {"cache_lookup"} ELSE {}),
            look.examined, -1)
    ELSE Outcome(scan.md, ToStream(look.stream, scan.md), TRUE,
            IF p.cache_metadata # 0
            THEN WriteCache(dsk, wr, key, CachePathOrder(p), ToStream(look.stream, scan.md))
            ELSE dsk,
            {"files", "open", "scan"}
                \cup (IF p.cache_metadata # 0 THEN {"cache_lookup", "cache_write"} ELSE {})
                \cup (IF p.cache_metadata # 0 /\ WriteDir(dsk, wr, key, CachePathOrder(p)) = -1
                      THEN {"error"} ELSE {}),
            look.examined, -1)

\* lines 284-339, after the cache lookup
ReportLooked(p, ds, dsk, wr, files, key, look, order) ==
    IF look.found /\ ~IsEmpty(FromStream(look.stream))
    THEN Outcome(FromStream(look.stream), look.stream, TRUE, dsk,
            {"files", "cache_lookup", "cache_read"}, look.examined, look.dir)
    ELSE ReportScanned(p, dsk, wr, key, look, ScanFiles(p, ds, files, order))

ReportFiles(p, ds, dsk, wr, files, key, order) ==
    ReportLooked(p, ds, dsk, wr, files, key,
        IF p.cache_metadata # 0 THEN LookupCache(dsk, key, CachePathOrder(p), <<>>)
        ELSE [found |-> FALSE, stream |-> <<>>, examined |-> <<>>],
        order)

ReportLocated(p, ds, dsk, wr, loc, order) ==
    IF ~loc.ok
    THEN Outcome(EmptyMD, <<>>, FALSE, dsk, {"files", "error"}, <<>>, -1)
    ELSE ReportFiles(p, ds, dsk, wr, loc.files, CacheKey(p, PATH, loc.files), order)

\* the work of the root rank when it has no cached metadata, lines 239-1030
RootReport(p, ds, dsk, wr, order) ==
    ReportLocated(p, ds, dsk, wr, LocateFiles(p, ds), order)

\* ------------------------------------------------ teca_cf_reader::execute
\* no dataset (nullptr)
Null == [null |-> TRUE]

\* the length of a dimension in a file holding n time steps
NcDimLen(d, n) ==
    CASE d = "lon" -> 3
      [] d = "lat" -> 2
      [] d = "plev" -> 2
      [] d = "ilev" -> 2
      [] d = "time" -> n

RECURSIVE Product(_)
Product(s) == IF s = <<>> THEN 1 ELSE Head(s) * Product(Tail(s))

\* teca_coordinate_util::index_of: the 0 based index of the last value of the
\* ascending array t that is not above v, or -1 when v is outside the array
IndexOf(t, v) ==
    IF t = <<>> \/ v < t[1] \/ v > t[Len(t)] THEN -1
    ELSE (CHOOSE i \in 1..Len(t) : t[i] <= v /\ (i = Len(t) \/ t[i + 1] > v)) - 1

\* lines 1097-1131: the time step and time of the request; the time step of a
\* request with neither key is 0
RequestedStep(in_t, req) ==
    IF Has(req, "time")
    THEN IF IndexOf(in_t, req.time) = -1 THEN Fail
         ELSE [ok |-> TRUE, time_step |-> IndexOf(in_t, req.time), t |-> req.time]
    ELSE IF AttOr(req, "time_step", 0) < Len(in_t)
         THEN [ok |-> TRUE, time_step |-> AttOr(req, "time_step", 0),
               t |-> in_t[AttOr(req, "time_step", 0) + 1]]
         ELSE IF Len(in_t) # 1 THEN Fail
         ELSE [ok |-> TRUE, time_step |-> AttOr(req, "time_step", 0), t |-> 0]

\* teca_coordinate_util::bounds_to_extent on one axis: the inclusive index
\* range whose coordinates cover [b0, b1]; an axis of one point covers
\* everything; bounds are given in the direction of the axis
AxisExtent(c, b0, b1) ==
    IF Len(c) = 1 THEN [ok |-> TRUE, lo |-> 0, hi |-> 0]
    ELSE IF c[1] <= c[Len(c)]
    THEN IF b0 < c[1] \/ b1 > c[Len(c)] \/ b0 > b1 THEN Fail
         ELSE [ok |-> TRUE,
               lo |-> (CHOOSE i \in 1..Len(c) : c[i] <= b0 /\ (i = Len(c) \/ c[i + 1] > b0)) - 1,
               hi |-> (CHOOSE i \in 1..Len(c) : c[i] >= b1 /\ (i = 1 \/ c[i - 1] < b1)) - 1]
    ELSE IF b0 > c[1] \/ b1 < c[Len(c)] \/ b0 < b1 THEN Fail
         ELSE [ok |-> TRUE,
               lo |-> (CHOOSE i \in 1..Len(c) : c[i] >= b0 /\ (i = Len(c) \/ c[i + 1] < b0)) - 1,
               hi |-> (CHOOSE i \in 1..Len(c) : c[i] <= b1 /\ (i = 1 \/ c[i - 1] > b1)) - 1]

BoundsToExtentOf(ex, ey, ez) ==
    IF ~ex.ok \/ ~ey.ok \/ ~ez.ok THEN Fail
    ELSE [ok |-> TRUE, extent |-> <<ex.lo, ex.hi, ey.lo, ey.hi, ez.lo, ez.hi>>]

BoundsToExtent(b, x, y, z) ==
    BoundsToExtentOf(AxisExtent(x, b[1], b[2]), AxisExtent(y, b[3], b[4]),
                     AxisExtent(z, b[5], b[6]))

ExtentBounds(e, x, y, z) ==
    <<x[e[1] + 1], x[e[2] + 1], y[e[3] + 1], y[e[4] + 1], z[e[5] + 1], z[e[6] + 1]>>

\* a reader that reads the whole mesh whatever extent is asked for
RequestedRegion_WholeExtent(md, req) ==
    IF ~Has(req, "bounds")
    THEN [ok |-> TRUE,
          extent |-> md.whole_extent,
          bounds |-> ExtentBounds(md.whole_extent,
                        md.coordinates.x, md.coordinates.y, md.coordinates.z)]
    ELSE IF ~BoundsToExtent(req.bounds, md.coordinates.x, md.coordinates.y,
                            md.coordinates.z).ok
         THEN Fail
         ELSE [ok |-> TRUE,
               extent |-> BoundsToExtent(req.bounds, md.coordinates.x,
                             md.coordinates.y, md.coordinates.z).extent,
               bounds |-> req.bounds]

\* lines 1141-1169: the extent and the bounds of the request
RequestedRegion(md, req) ==
    IF ~Has(req, "bounds")
    THEN [ok |-> TRUE,
          extent |-> AttOr(req, "extent", md.whole_extent),
          bounds |-> ExtentBounds(AttOr(req, "extent", md.whole_extent),
                        md.coordinates.x, md.coordinates.y, md.coordinates.z)]
    ELSE IF ~BoundsToExtent(req.bounds, md.coordinates.x, md.coordinates.y,
                            md.coordinates.z).ok
         THEN Fail
         ELSE [ok |-> TRUE,
               extent |-> BoundsToExtent(req.bounds, md.coordinates.x,
                             md.coordinates.y, md.coordinates.z).extent,
               bounds |-> req.bounds]

\* a loop that stops at the file before the one holding the step
RECURSIVE LocateStep_Strict(_, _, _, _, _)
LocateStep_Strict(step_count, time_step, i, idx, count) ==
    IF i < Len(step_count) /\ count + step_count[i] < time_step
    THEN LocateStep_Strict(step_count, time_step, i + 1, idx + 1, count + step_count[i])
    ELSE [idx |-> idx, offs |-> time_step - count]

\* lines 1191-1199: the file holding the time step and the step's offset in
\* it; i counts from 1 as in the code, step_count[i] is the code's
\* step_count[i-1]
RECURSIVE LocateStep(_, _, _, _, _)
LocateStep(step_count, time_step, i, idx, count) ==
    IF i < Len(step_count) /\ count + step_count[i] <= time_step
    THEN LocateStep(step_count, time_step, i + 1, idx + 1, count + step_count[i])
    ELSE [idx |-> idx, offs |-> time_step - count]

\* lines 1279-1314: the dimensions of a mesh variable, its starts and counts
MeshDims(p, offs, e) ==
    (IF p.t_axis_variable # "" THEN <<[name |-> p.t_axis_variable, start |-> offs, count |-> 1]>> ELSE <<>>)
    \o (IF p.z_axis_variable # "" THEN <<[name |-> p.z_axis_variable, start |-> e[5], count |-> e[6] - e[5] + 1]>> ELSE <<>>)
    \o (IF p.y_axis_variable # "" THEN <<[name |-> p.y_axis_variable, start |-> e[3], count |-> e[4] - e[3] + 1]>> ELSE <<>>)
    \o (IF p.x_axis_variable # "" THEN <<[name |-> p.x_axis_variable, start |-> e[1], count |-> e[2] - e[1] + 1]>> ELSE <<>>)

\* a mesh size that leaves the vertical axis out
mesh_size_NoZ(p, e) ==
    (IF p.y_axis_variable # "" THEN e[4] - e[3] + 1 ELSE 1)
    * (IF p.x_axis_variable # "" THEN e[2] - e[1] + 1 ELSE 1)

\* lines 1284-1314
mesh_size(p, e) ==
    (IF p.z_axis_variable # "" THEN e[6] - e[5] + 1 ELSE 1)
    * (IF p.y_axis_variable # "" THEN e[4] - e[3] + 1 ELSE 1)
    * (IF p.x_axis_variable # "" THEN e[2] - e[1] + 1 ELSE 1)

\* lines 1326-1334: the attributes needed to read the array are there
CanRead(atrs, a) == Has(atrs, a) /\ Has(atrs[a], "cf_dim_names")

\* lines 1338-1352
IsMeshVar(dim_names, mesh_dims) ==
    /\ Len(dim_names) = Len(mesh_dims)
    /\ \A ii \in 1..Len(dim_names) : dim_names[ii] = mesh_dims[ii].name

\* lines 1380-1406: the starts and counts of a variable that is not on the mesh
InfoDims(p, dim_names, offs, n) ==
    [ii \in 1..Len(dim_names) |->
        IF ii = 1 /\ p.t_axis_variable # "" /\ dim_names[1] = p.t_axis_variable
        THEN [name |-> dim_names[ii], start |-> offs, count |-> 1]
        ELSE [name |-> dim_names[ii], start |-> 0, count |-> NcDimLen(dim_names[ii], n)]]

\* nc_get_vara fails when the hyperslab leaves the variable, or on an i/o error
ReadFails(dim_names, dims, n, io_error) ==
    \/ io_error
    \/ Len(dim_names) # Len(dims)
    \/ \E ii \in 1..Len(dims) :
          ii <= Len(dim_names)
          /\ dims[ii].start + dims[ii].count > NcDimLen(dim_names[ii], n)

\* the dimensions the array a is read with
ReadDims(p, atrs, a, offs, e, n) ==
    IF IsMeshVar(atrs[a].cf_dim_names, MeshDims(p, offs, e)) THEN MeshDims(p, offs, e)
    ELSE InfoDims(p, atrs[a].cf_dim_names, offs, n)

\* lines 1316-1430: the array a was read
WasRead(p, atrs, a, offs, e, n, io_error) ==
    /\ CanRead(atrs, a)
    /\ ~ReadFails(atrs[a].cf_dim_names, ReadDims(p, atrs, a, offs, e, n), n, io_error)

\* lines 1316-1430: the point arrays of the mesh with their sizes
PointArrays(p, atrs, arrays, offs, e, n, io_error) ==
    [a \in {b \in Range(arrays) :
                /\ WasRead(p, atrs, b, offs, e, n, io_error)
                /\ IsMeshVar(atrs[b].cf_dim_names, MeshDims(p, offs, e))}
        |-> mesh_size(p, e)]

\* lines 1379-1428: the information arrays of the mesh with their sizes
InfoArrays(p, atrs, arrays, offs, e, n, io_error) ==
    [a \in {b \in Range(arrays) :
                /\ WasRead(p, atrs, b, offs, e, n, io_error)
                /\ ~IsMeshVar(atrs[b].cf_dim_names, MeshDims(p, offs, e))}
        |-> Product([ii \in 1..Len(atrs[a].cf_dim_names) |->
                        InfoDims(p, atrs[a].cf_dim_names, offs, n)[ii].count])]

\* lines 1201-1432: the mesh read from the file idx (0 based) at offset offs
ReadMesh(p, md, ds, req, step, region, loc, io_error) ==
    IF loc.idx >= Len(md.files) \/ loc.idx >= Len(ds) THEN Null
    ELSE [null |-> FALSE,
          file_index |-> loc.idx,
          offs |-> loc.offs,
          time |-> step.t,
          time_step |-> step.time_step,
          whole_extent |-> md.whole_extent,
          extent |-> region.extent,
          bounds |-> region.bounds,
          x |-> SubSeq(md.coordinates.x, region.extent[1] + 1, region.extent[2] + 1),
          y |-> SubSeq(md.coordinates.y, region.extent[3] + 1, region.extent[4] + 1),
          z |-> SubSeq(md.coordinates.z, region.extent[5] + 1, region.extent[6] + 1),
          point_arrays |-> PointArrays(p, md.attributes, AttOr(req, "arrays", <<>>),
                              loc.offs, region.extent, ds[loc.idx + 1].n, io_error),
          info_arrays |-> InfoArrays(p, md.attributes, AttOr(req, "arrays", <<>>),
                              loc.offs, region.extent, ds[loc.idx + 1].n, io_error),
          errors |-> {a \in Range(AttOr(req, "arrays", <<>>)) :
                        ~WasRead(p, md.attributes, a, loc.offs, region.extent,
                                 ds[loc.idx + 1].n, io_error)}]

ExecuteStep(p, md, ds, req, step, region, io_error) ==
    IF ~step.ok \/ ~region.ok THEN Null
    ELSE ReadMesh(p, md, ds, req, step, region,
             LocateStep(md.step_count, step.time_step, 1, 0, 0), io_error)

\* teca_cf_reader::execute on the metadata md the reader holds
ExecuteReader(p, md, ds, req, io_error) ==
    IF IsEmpty(md) THEN Null
    ELSE ExecuteStep(p, md, ds, req, RequestedStep(md.coordinates.t, req),
             RequestedRegion(md, req), io_error)

\* ------------------------------------------------- the transform stages
\* teca_metadata::append adds to a property that is there and fails otherwise;
\* teca_metadata::insert stores the value under the key
MdAppend(md, k, v) == IF Has(md, k) THEN MdSet(md, k, md[k] \cup {v}) ELSE md

MdInsert(md, k, v) == MdSet(md, k, v)

\* the array names of the model in the order of std::set<std::string>
ArrayOrder ==
    <<"", "Q", "Q_int", "T", "Tx", "a_bnds", "b_bnds", "foo", "ps", "ptop", "sigma_bnds",
      "u", "v", "vorticity", "w">>

\* the elements of a std::set in its order
SetToSeq(S) == SelectSeq(ArrayOrder, LAMBDA a : a \in S)

\* request.get("arrays", arrays) into a std::set
ArraysOf(req) == IF Has(req, "arrays") THEN Range(req.arrays) ELSE {}

\* what a stage operation amounts to: the metadata or the requests it returns,
\* whether it logged a TECA_ERROR, and the stage's properties afterwards
Reports(md, error, cfg) == [md |-> md, error |-> error, crashed |-> FALSE, cfg |-> cfg]

\* the operation dereferences a null pointer
Crashes(cfg) == [md |-> EmptyMD, error |-> FALSE, crashed |-> TRUE, cfg |-> cfg]

Requested(up, error) == [up |-> up, error |-> error]

\* ---- teca_vorticity
VorticityDefaults ==
    [alg |-> "vorticity", component_0_variable |-> "", component_1_variable |-> "",
     vorticity_variable |-> "vorticity"]

\* lines 117-127
get_component_0_variable(cfg, req) ==
    IF cfg.component_0_variable = "" /\ Has(req, "teca_vorticity::component_0_variable")
    THEN req["teca_vorticity::component_0_variable"]
    ELSE cfg.component_0_variable

\* lines 130-140
get_component_1_variable(cfg, req) ==
    IF cfg.component_1_variable = "" /\ Has(req, "teca_vorticity::component_1_variable")
    THEN req["teca_vorticity::component_1_variable"]
    ELSE cfg.component_1_variable

\* lines 143-157
get_vorticity_variable(cfg, req) ==
    IF cfg.vorticity_variable # "" THEN cfg.vorticity_variable
    ELSE IF Has(req, "teca_vorticity::vorticity_variable")
         THEN req["teca_vorticity::vorticity_variable"]
         ELSE "vorticity"

\* lines 160-175
vorticity_get_output_metadata(cfg, input_md) ==
    Reports(MdAppend(input_md, "variables", cfg.vorticity_variable), FALSE, cfg)

\* lines 178-223
vorticity_get_upstream_request(cfg, req) ==
    IF get_component_0_variable(cfg, req) = "" THEN Requested(<<>>, TRUE)
    ELSE IF get_component_1_variable(cfg, req) = "" THEN Requested(<<>>, TRUE)
    ELSE Requested(
            <<MdInsert(req, "arrays",
                SetToSeq((ArraysOf(req)
                            \cup {cfg.component_0_variable, cfg.component_1_variable})
                         \ {get_vorticity_variable(cfg, req)}))>>,
            FALSE)

\* the arrays teca_vorticity::execute gets from the input mesh, lines 247-281
vorticity_reads(cfg, req) ==
    {get_component_0_variable(cfg, req), get_component_1_variable(cfg, req)}

\* lines 226-329
vorticity_execute(cfg, mesh, req) ==
    IF mesh.null THEN Null
    ELSE IF get_component_0_variable(cfg, req) = "" THEN Null
    ELSE IF get_component_0_variable(cfg, req) \notin DOMAIN mesh.point_arrays THEN Null
    ELSE IF get_component_1_variable(cfg, req) = "" THEN Null
    ELSE IF get_component_1_variable(cfg, req) \notin DOMAIN mesh.point_arrays THEN Null
    ELSE [mesh EXCEPT !.point_arrays =
             MdSet(@, get_vorticity_variable(cfg, req),
                   mesh.point_arrays[get_component_0_variable(cfg, req)])]

\* unsigned long arithmetic wraps around; the model keeps it at a width of 30
\* bits, so that ULONG_MAX is an index beyond every array
ULongModulus == 2^30

ULong(v) == v % ULongModulus

\* the elements S of an array that the kernel touches
Access(array, S) == {[array |-> array, index |-> i] : i \in S}

\* the rows and the columns the stencil loops of the kernel visit: j from 1
\* while j < max_j, i from 1 while i < max_i
StencilRows(ny) == 1..(ULong(ny - 1) - 1)

StencilColumns(nx) == 1..(ULong(nx - 1) - 1)

\* lines 32-73, ::vorticity: the elements read, the elements written, and
\* the points of w the stencil computes (the others keep the 0 of memset)
vorticity(nx, ny) ==
    [reads |->
        Access("lon", {0, 1})
        \cup Access("lat", 0..(nx - 1))
        \cup Access("lat", UNION {{i - 1, i + 1} : i \in StencilRows(ny)})
        \cup Access("dy", {1, ULong(ULong(ny - 1) - 1)})
        \cup Access("dx", {i \in StencilColumns(nx) : StencilRows(ny) # {}})
        \cup Access("dy", {j \in StencilRows(ny) : StencilColumns(nx) # {}})
        \cup Access("comp_1", UNION {{j * nx + i + 1, j * nx + i - 1} :
                                        j \in StencilRows(ny), i \in StencilColumns(nx)})
        \cup Access("comp_0", UNION {{j * nx - nx + i, j * nx + nx + i} :
                                        j \in StencilRows(ny), i \in StencilColumns(nx)}),
     writes |->
        Access("dx", 0..(nx - 1))
        \cup Access("dy", StencilRows(ny) \cup {0, ULong(ny - 1)})
        \cup Access("w", 0..(nx * ny - 1)),
     computed |-> {j * nx + i : j \in StencilRows(ny), i \in StencilColumns(nx)}]

\* the number of elements of the arrays of the kernel on a mesh of nx by ny
\* points: the coordinates, the malloc'ed dx and dy, the point arrays
AllocatedSize(array, nx, ny) ==
    CASE array \in {"lon", "dx"} -> nx
      [] array \in {"lat", "dy"} -> ny
      [] OTHER -> nx * ny

\* the accesses of the kernel outside the array they name
OutOfBounds(nx, ny) ==
    {a \in vorticity(nx, ny).reads \cup vorticity(nx, ny).writes :
        a.index >= AllocatedSize(a.array, nx, ny)}

\* ---- teca_vertical_integral
VerticalIntegralDefaults ==
    [alg |-> "vertical_integral",
     hybrid_a_variable |-> "a_bnds", hybrid_b_variable |-> "b_bnds",
     sigma_variable |-> "sigma_bnds", surface_p_variable |-> "ps",
     p_top_variable |-> "ptop", using_hybrid |-> 1, p_top_override_value |-> -1,
     integration_variable |-> "", output_variable_name |-> ""]

\* lines 530-532
ZLevels(whole_extent) == whole_extent[6] - whole_extent[5] + 1

NoZ(e) == <<e[1], e[2], e[3], e[4], 0, 0>>

\* lines 544-576: the report of a dataset with a z dimension
vertical_integral_reported(cfg, md, whole_extent) ==
    LET m1 == IF Has(md, "variables") THEN MdAppend(md, "variables", cfg.output_variable_name)
              ELSE MdSet(md, "variables", {cfg.output_variable_name})
        m2 == MdSet(m1, "attributes",
                  MdSet(AttOr(md, "attributes", EmptyMD), cfg.output_variable_name,
                        [cf_type_code |-> "double", centering |-> "point",
                         units |-> "unset", long_name |-> "unset"]))
        m3 == MdSet(m2, "whole_extent", NoZ(whole_extent))
        m4 == IF Has(md, "extent") THEN MdSet(m3, "extent", NoZ(md.extent)) ELSE m3
        m5 == IF Has(md, "bounds") THEN MdSet(m4, "bounds", NoZ(md.bounds)) ELSE m4
    IN  MdSet(m5, "coordinates", MdSet(md.coordinates, "z", <<0>>))

\* lines 498-577
vertical_integral_get_output_metadata(cfg, input_md) ==
    IF ~Has(input_md, "coordinates") THEN Crashes(cfg)
    ELSE IF ~Has(input_md.coordinates, "z") THEN Crashes(cfg)
    ELSE IF ZLevels(AttOr(input_md, "whole_extent", <<0, 0, 0, 0, 0, 0>>)) = 1
         THEN Reports(input_md, TRUE, cfg)
         ELSE Reports(vertical_integral_reported(cfg, input_md,
                          AttOr(input_md, "whole_extent", <<0, 0, 0, 0, 0, 0>>)),
                      FALSE, cfg)

\* the names passed to request_var in get_upstream_request, in order, and to
\* get_info_variable / get_mesh_variable in execute
vertical_integral_names(cfg) ==
    (IF cfg.using_hybrid # 0 THEN <<cfg.hybrid_a_variable, cfg.hybrid_b_variable>>
     ELSE <<cfg.sigma_variable>>)
    \o <<cfg.surface_p_variable>>
    \o (IF cfg.p_top_override_value = 0 THEN <<cfg.p_top_variable>> ELSE <<>>)
    \o <<cfg.integration_variable>>

\* a stage that passes the requested region upstream
vertical_integral_get_upstream_request_KeepRegion(cfg, req) ==
    IF "" \in Range(vertical_integral_names(cfg)) THEN Requested(<<>>, TRUE)
    ELSE Requested(
            <<MdSet(req, "arrays",
                SetToSeq((ArraysOf(req) \cup Range(vertical_integral_names(cfg)))
                         \ {cfg.output_variable_name}))>>,
            FALSE)

\* lines 580-684
vertical_integral_get_upstream_request(cfg, req) ==
    IF "" \in Range(vertical_integral_names(cfg)) THEN Requested(<<>>, TRUE)
    ELSE Requested(
            <<MdSet(MdRemove(MdRemove(MdRemove(req, "bounds"), "extent"), "whole_extent"),
                "arrays",
                SetToSeq((ArraysOf(req) \cup Range(vertical_integral_names(cfg)))
                         \ {cfg.output_variable_name}))>>,
            FALSE)

vertical_integral_reads(cfg, req) == Range(vertical_integral_names(cfg))

\* the arrays execute takes from the point arrays, the others are taken from
\* the information arrays
vertical_integral_mesh_names(cfg) ==
    (IF cfg.p_top_override_value = 0 THEN {cfg.p_top_variable} ELSE {})
    \cup {cfg.integration_variable}

\* lines 687-867
vertical_integral_execute(cfg, mesh, req) ==
    IF mesh.null THEN Null
    ELSE IF \E a \in Range(vertical_integral_names(cfg)) :
               \/ a = ""
               \/ (a \in vertical_integral_mesh_names(cfg)
                     /\ a \notin DOMAIN mesh.point_arrays)
               \/ (a \notin vertical_integral_mesh_names(cfg)
                     /\ a \notin DOMAIN mesh.info_arrays)
    THEN Null
    ELSE [mesh EXCEPT
            !.extent = NoZ(@), !.whole_extent = NoZ(@), !.bounds = NoZ(@),
            !.z = <<0>>,
            !.point_arrays = MdSet(@, cfg.output_variable_name,
                (mesh.extent[2] - mesh.extent[1] + 1) * (mesh.extent[4] - mesh.extent[3] + 1))]

\* ---- teca_cartesian_mesh_subset
MeshSubsetDefaults ==
    [alg |-> "cartesian_mesh_subset", bounds |-> <<0, 0, 0, 0, 0, 0>>,
     cover_bounds |-> FALSE, extent |-> <<>>]

\* teca_cartesian_mesh_util bounds_to_extent on one axis without cover_bounds:
\* the points inside [b0, b1]
AxisInside(c, b0, b1) ==
    IF Len(c) = 1 THEN [ok |-> TRUE, lo |-> 0, hi |-> 0]
    ELSE IF c[1] <= c[Len(c)]
    THEN IF b0 < c[1] \/ b1 > c[Len(c)] \/ ~\E i \in 1..Len(c) : b0 <= c[i] /\ c[i] <= b1
         THEN Fail
         ELSE [ok |-> TRUE,
               lo |-> (CHOOSE i \in 1..Len(c) : c[i] >= b0 /\ (i = 1 \/ c[i - 1] < b0)) - 1,
               hi |-> (CHOOSE i \in 1..Len(c) : c[i] <= b1 /\ (i = Len(c) \/ c[i + 1] > b1)) - 1]
    ELSE IF b0 > c[1] \/ b1 < c[Len(c)] \/ ~\E i \in 1..Len(c) : b0 >= c[i] /\ c[i] >= b1
         THEN Fail
         ELSE [ok |-> TRUE,
               lo |-> (CHOOSE i \in 1..Len(c) : c[i] <= b0 /\ (i = 1 \/ c[i - 1] > b0)) - 1,
               hi |-> (CHOOSE i \in 1..Len(c) : c[i] >= b1 /\ (i = Len(c) \/ c[i + 1] < b1)) - 1]

SubsetExtent(cfg, x, y, z) ==
    IF cfg.cover_bounds THEN BoundsToExtent(cfg.bounds, x, y, z)
    ELSE BoundsToExtentOf(AxisInside(x, cfg.bounds[1], cfg.bounds[2]),
                          AxisInside(y, cfg.bounds[3], cfg.bounds[4]),
                          AxisInside(z, cfg.bounds[5], cfg.bounds[6]))

mesh_subset_reported(cfg, input_md, ext) ==
    IF ~ext.ok THEN Reports(EmptyMD, TRUE, cfg)
    ELSE Reports(MdInsert(input_md, "whole_extent", ext.extent), FALSE,
                 [cfg EXCEPT !.extent = ext.extent])

\* array_temporal_stats.h lines 89-161
mesh_subset_get_output_metadata(cfg, input_md) ==
    IF \/ ~Has(input_md, "coordinates")
       \/ ~Has(input_md.coordinates, "x")
       \/ ~Has(input_md.coordinates, "y")
       \/ ~Has(input_md.coordinates, "z")
    THEN Reports(EmptyMD, TRUE, cfg)
    ELSE mesh_subset_reported(cfg, input_md,
             SubsetExtent(cfg, input_md.coordinates.x, input_md.coordinates.y,
                          input_md.coordinates.z))

\* lines 164-177
mesh_subset_get_upstream_request(cfg, req) ==
    Requested(<<MdInsert(req, "extent", cfg.extent)>>, FALSE)

\* lines 180-205
mesh_subset_execute(cfg, mesh, req) == mesh

\* ---- teca_dataset_diff
\* the tolerance is counted in millionths
TolScale == 1000000

\* teca_dataset_diff.cxx lines 33-34: tolerance(1e-6)
DatasetDiffDefaults == [alg |-> "dataset_diff", tolerance |-> 1]

\* teca_dataset_diff.cxx lines 69-119
dataset_diff_get_output_metadata(cfg, input_md) ==
    IF ~Has(input_md, "index_initializer_key") THEN Reports(EmptyMD, TRUE, cfg)
    ELSE IF ~Has(input_md, input_md.index_initializer_key) THEN Reports(EmptyMD, TRUE, cfg)
    ELSE Reports(
            MdSet(MdSet(MdSet(input_md, "index_initializer_key", "number_of_tests"),
                        "index_request_key", "test_id"),
                  "number_of_tests", input_md[input_md.index_initializer_key]),
            FALSE, cfg)

\* one upstream request of teca_dataset_diff, lines 142-146
dataset_diff_request(req, request_key) ==
    MdRemove(MdSet(MdSet(req, "index_request_key", request_key),
                   request_key, req.test_id), "test_id")

\* lines 122-169
dataset_diff_get_upstream_request(cfg, input_md_0, input_md_1, req) ==
    IF ~Has(req, "test_id") THEN Requested(<<>>, TRUE)
    ELSE IF ~Has(input_md_0, "index_request_key") THEN Requested(<<>>, TRUE)
    ELSE IF ~Has(input_md_1, "index_request_key") THEN Requested(<<>>, TRUE)
    ELSE Requested(<<dataset_diff_request(req, input_md_0.index_request_key),
                     dataset_diff_request(req, input_md_1.index_request_key)>>, FALSE)

\* a double that is not a number; the numbers of the model are not negative
NaN == -1

Abs(v) == IF v < 0 THEN -v ELSE v

\* teca_dataset_diff.cxx lines 395-410: rel_diff > tolerance, in doubles; a
\* comparison with a NaN is false
RelDiffExceeds(ref_val, comp_val, tolerance) ==
    IF ref_val = NaN \/ comp_val = NaN THEN FALSE
    ELSE IF ref_val # 0
         THEN Abs(comp_val - ref_val) * TolScale > tolerance * Abs(ref_val)
         ELSE IF comp_val # 0
              THEN Abs(comp_val - ref_val) * TolScale > tolerance * Abs(comp_val)
              ELSE 0 > tolerance

\* the element types TEMPLATE_DISPATCH handles: the numeric ones
PodTypes == {"int", "double"}

\* a comparison that takes arrays of different element types for comparable
compare_arrays_AnyType(cfg, array1, array2) ==
    IF Len(array1.vals) # Len(array2.vals) THEN -1
    ELSE IF array1.type \in PodTypes /\ array2.type \in PodTypes
    THEN IF \E i \in 1..Len(array1.vals) :
                RelDiffExceeds(array1.vals[i], array2.vals[i], cfg.tolerance)
         THEN -1 ELSE 0
    ELSE IF array1.type = "string" /\ array2.type = "string"
    THEN IF \E i \in 1..Len(array1.vals) : array1.vals[i] # array2.vals[i]
         THEN -1 ELSE 0
    ELSE -1

\* teca_dataset_diff.cxx lines 361-448
compare_arrays(cfg, array1, array2) ==
    IF Len(array1.vals) # Len(array2.vals) THEN -1
    ELSE IF array1.type \in PodTypes
    THEN IF array2.type # array1.type THEN -1
         ELSE IF \E i \in 1..Len(array1.vals) :
                    RelDiffExceeds(array1.vals[i], array2.vals[i], cfg.tolerance)
              THEN -1 ELSE 0
    ELSE IF array1.type = "string" /\ array2.type = "string"
    THEN IF \E i \in 1..Len(array1.vals) : array1.vals[i] # array2.vals[i]
         THEN -1 ELSE 0
    ELSE -1

\* teca_table::get_number_of_rows: the size of the first column
NumberOfRows(table) == IF table.cols = <<>> THEN 0 ELSE Len(table.cols[1].vals)

\* teca_dataset_diff.cxx lines 287-358
compare_tables(cfg, table1, table2) ==
    IF Len(table1.cols) # Len(table2.cols) THEN -1
    ELSE IF NumberOfRows(table1) # NumberOfRows(table2) THEN -1
    ELSE IF \E col \in 1..Len(table1.cols) :
                compare_arrays(cfg, table1.cols[col], table2.cols[col]) # 0
         THEN -1 ELSE 0

\* teca_dataset_diff.cxx lines 451-491: an array collection is a function
\* from the names of its arrays
compare_array_collections(cfg, reference_arrays, data_arrays) ==
    IF \E name \in DOMAIN reference_arrays : name \notin DOMAIN data_arrays THEN -1
    ELSE IF \E name \in DOMAIN reference_arrays :
                compare_arrays(cfg, reference_arrays[name], data_arrays[name]) # 0
         THEN -1 ELSE 0

\* the array collections of a mesh in the order compare_meshes takes them
MeshArrayKinds ==
    <<"point", "cell", "x_edge", "y_edge", "z_edge", "x_face", "y_face", "z_face",
      "information">>

\* teca_dataset_diff.cxx lines 494-627
compare_meshes(cfg, reference_mesh, data_mesh) ==
    IF \E k \in Range(MeshArrayKinds) :
           compare_array_collections(cfg, reference_mesh.arrays[k], data_mesh.arrays[k]) # 0
    THEN -1 ELSE 0

\* teca_dataset_diff.cxx lines 630-693
compare_cartesian_meshes(cfg, reference_mesh, data_mesh) ==
    IF compare_meshes(cfg, reference_mesh, data_mesh) # 0 THEN -1
    ELSE IF compare_arrays(cfg, reference_mesh.x, data_mesh.x) # 0 THEN -1
    ELSE IF compare_arrays(cfg, reference_mesh.y, data_mesh.y) # 0 THEN -1
    ELSE IF compare_arrays(cfg, reference_mesh.z, data_mesh.z) # 0 THEN -1
    ELSE 0

\* teca_dataset::empty of the datasets of the model
DatasetEmpty(ds) ==
    IF ds.class = "table" THEN ds.cols = <<>>
    ELSE \A k \in Range(MeshArrayKinds) : DOMAIN ds.arrays[k] = {}

\* teca_dataset_diff.cxx lines 171-283, execute on two datasets of the same
\* class: it returns no dataset; the outcome is whether an error was logged
\* and what the comparison returned (-1 when none was made)
dataset_diff_execute(cfg, ds0, ds1) ==
    IF DatasetEmpty(ds0) \/ DatasetEmpty(ds1) THEN [error |-> TRUE, result |-> -1]
    ELSE IF ds0.class = "table"
    THEN [error |-> compare_tables(cfg, ds0, ds1) # 0,
          result |-> compare_tables(cfg, ds0, ds1)]
    ELSE [error |-> compare_cartesian_meshes(cfg, ds0, ds1) # 0,
          result |-> compare_cartesian_meshes(cfg, ds0, ds1)]

\* ---- the stage contract
get_output_metadata(cfg, input_md) ==
    CASE cfg.alg = "vorticity" -> vorticity_get_output_metadata(cfg, input_md)
      [] cfg.alg = "vertical_integral" -> vertical_integral_get_output_metadata(cfg, input_md)
      [] cfg.alg = "cartesian_mesh_subset" -> mesh_subset_get_output_metadata(cfg, input_md)
      [] cfg.alg = "dataset_diff" -> dataset_diff_get_output_metadata(cfg, input_md)

get_upstream_request(cfg, input_md, req) ==
    CASE cfg.alg = "vorticity" -> vorticity_get_upstream_request(cfg, req)
      [] cfg.alg = "vertical_integral" -> vertical_integral_get_upstream_request(cfg, req)
      [] cfg.alg = "cartesian_mesh_subset" -> mesh_subset_get_upstream_request(cfg, req)
      [] cfg.alg = "dataset_diff" ->
            dataset_diff_get_upstream_request(cfg, input_md, input_md, req)

\* the arrays the stage's execute takes from its input
StageReads(cfg, req) ==
    CASE cfg.alg = "vorticity" -> vorticity_reads(cfg, req)
      [] cfg.alg = "vertical_integral" -> vertical_integral_reads(cfg, req)
      [] OTHER -> {}

\* the array the stage's execute adds to its input
StageProduces(cfg, req) ==
    CASE cfg.alg = "vorticity" -> {get_vorticity_variable(cfg, req)}
      [] cfg.alg = "vertical_integral" -> {cfg.output_variable_name}
      [] OTHER -> {}

StageExecute(cfg, mesh, req) ==
    CASE cfg.alg = "vorticity" -> vorticity_execute(cfg, mesh, req)
      [] cfg.alg = "vertical_integral" -> vertical_integral_execute(cfg, mesh, req)
      [] cfg.alg = "cartesian_mesh_subset" -> mesh_subset_execute(cfg, mesh, req)

\* ------------------------------------------------------------ the state
VARIABLES
    props,      \* the reader's properties (the same on every rank)
    nc,         \* the dataset on disk: one record per file
    disk,       \* the cache files of each search directory: key -> file
    writable,   \* whether a cache file can be created in a directory
    n_ranks,    \* the size of the communicator
    metadata,   \* internals->metadata of the reader on each rank
    pc,         \* where each rank is: "idle", or "bcast" inside the broadcast
    ret,        \* what get_output_metadata returned last on each rank
    effects,    \* what the last get_output_metadata did on each rank
    chan,       \* the streams broadcast by the root, in order
    recvd,      \* the number of broadcasts each rank took part in
    loaded,     \* the directory the root's last report loaded the cache from
    examined,   \* the directories the root's last report looked into, in order
    lastOp,     \* the operation of the last step and its rank
    mods,       \* the number of property changes so far
    request,    \* the request of the reader's last execute
    out,        \* what the reader's last execute returned
    other,      \* a second configuration of the reader
    keys,       \* the cache keys of props and of other
    stcfg,      \* the properties of the transform stage
    st          \* the last operation of the transform stage and its result

readerVars == <<props, nc, disk, writable, n_ranks, metadata, pc, ret, effects,
                chan, recvd, loaded, examined, lastOp, mods>>

execVars == <<request, out>>

keyVars == <<other, keys>>

stageVars == <<stcfg, st>>

vars == <<readerVars, execVars, keyVars, stageVars>>

Ranks == 0..(n_ranks - 1)

\* a reader whose root is the lowest rank
root_rank_Lowest == CHOOSE r \in Ranks : \A q \in Ranks : r <= q

\* line 238
root_rank == n_ranks - 1

NoDisk == [d \in CacheDirs |-> EmptyMD]

InitReader(P, C, D, W) ==
    /\ n_ranks \in P
    /\ props \in C
    /\ nc \in D
    /\ writable \in W
    /\ disk = NoDisk
    /\ metadata = [r \in Ranks |-> EmptyMD]
    /\ pc = [r \in Ranks |-> "idle"]
    /\ ret = [r \in Ranks |-> EmptyMD]
    /\ effects = [r \in Ranks |-> {}]
    /\ chan = <<>>
    /\ recvd = [r \in Ranks |-> 0]
    /\ loaded = -1
    /\ examined = <<>>
    /\ lastOp = [op |-> "init", rank |-> 0]
    /\ mods = 0

\* nothing executed yet
InitExec == request = EmptyMD /\ out = Null

NoKeys == [computed |-> FALSE]

\* no second configuration
InitNoKey == other = Defaults /\ keys = NoKeys

\* the second configuration starts as a copy of the first
InitKey == other = props /\ keys = NoKeys

NoStage == [alg |-> "none"]

\* no transform stage
InitNoStage == stcfg = NoStage /\ st = [op |-> "init"]

\* the root rank returns with the outcome w of its work
RootReturns(r, w) ==
    /\ (w.bcast /\ n_ranks > 1) => Len(chan) < MaxBcast
    /\ metadata' = [metadata EXCEPT ![r] = w.md]
    /\ ret' = [ret EXCEPT ![r] = w.md]
    /\ disk' = w.disk
    /\ effects' = [effects EXCEPT ![r] =
           w.effects \cup (IF w.bcast /\ n_ranks > 1 THEN {"bcast_send"} ELSE {})]
    /\ chan' = IF w.bcast /\ n_ranks > 1 THEN Append(chan, w.stream) ELSE chan
    /\ recvd' = IF w.bcast /\ n_ranks > 1 THEN [recvd EXCEPT ![r] = @ + 1] ELSE recvd
    /\ loaded' = w.loaded
    /\ examined' = w.examined
    /\ lastOp' = [op |-> "report", rank |-> r]
    /\ UNCHANGED <<props, nc, writable, n_ranks, pc, mods>>

\* a reader that ignores its cached metadata and works again
ReturnCached_Rework(r) ==
    /\ ~IsEmpty(metadata[r])
    /\ \E order \in TaskOrders :
          RootReturns(r, RootReport(props, nc, disk, writable, order))

\* lines 215-218: the cached metadata is returned as it is
ReturnCached(r) ==
    /\ ~IsEmpty(metadata[r])
    /\ ret' = [ret EXCEPT ![r] = metadata[r]]
    /\ effects' = [effects EXCEPT ![r] = {}]
    /\ lastOp' = [op |-> "report", rank |-> r]
    /\ UNCHANGED <<props, nc, disk, writable, n_ranks, metadata, pc, chan, recvd,
                   loaded, examined, mods>>

\* get_output_metadata on the root rank (rank == root_rank), the whole call:
\* the root does not wait for the other ranks in the broadcast
GetOutputMetadataRoot(r) ==
    /\ r = root_rank
    /\ pc[r] = "idle"
    /\ \/ ReturnCached(r)
       \/ /\ IsEmpty(metadata[r])
          /\ \E order \in TaskOrders :
                RootReturns(r, RootReport(props, nc, disk, writable, order))

\* get_output_metadata on another rank, up to the broadcast it waits in
GetOutputMetadataEnter(r) ==
    /\ r # root_rank
    /\ pc[r] = "idle"
    /\ \/ ReturnCached(r)
       \/ /\ IsEmpty(metadata[r])
          /\ pc' = [pc EXCEPT ![r] = "bcast"]
          /\ effects' = [effects EXCEPT ![r] = {}]
          /\ lastOp' = [op |-> "enter", rank |-> r]
          /\ UNCHANGED <<props, nc, disk, writable, n_ranks, metadata, ret, chan,
                         recvd, loaded, examined, mods>>

\* lines 1039-1053: the rank receives the root's stream and returns
BroadcastReceive(r) ==
    /\ pc[r] = "bcast"
    /\ recvd[r] < Len(chan)
    /\ LET md == FromStream(chan[recvd[r] + 1])
       IN  /\ metadata' = [metadata EXCEPT ![r] = md]
           /\ ret' = [ret EXCEPT ![r] = md]
    /\ recvd' = [recvd EXCEPT ![r] = @ + 1]
    /\ pc' = [pc EXCEPT ![r] = "idle"]
    /\ effects' = [effects EXCEPT ![r] = {"bcast_recv"}]
    /\ lastOp' = [op |-> "report", rank |-> r]
    /\ UNCHANGED <<props, nc, disk, writable, n_ranks, chan, loaded, examined, mods>>

\* a clear that leaves the cached metadata in place
clear_cached_metadata_Keep(md) == md

\* lines 198-201
clear_cached_metadata(md) == EmptyMD

\* teca_cf_reader::set_modified
SetModified(r) ==
    /\ pc[r] = "idle"
    /\ metadata' = [metadata EXCEPT ![r] = clear_cached_metadata(@)]
    /\ lastOp' = [op |-> "set_modified", rank |-> r]
    /\ UNCHANGED <<props, nc, disk, writable, n_ranks, pc, ret, effects, chan,
                   recvd, loaded, examined, mods>>

\* a property setter: the value is stored and set_modified is called
SetProperty(name, v) ==
    /\ mods < MaxMods
    /\ \A r \in Ranks : pc[r] = "idle"
    /\ v # props[name]
    /\ props' = [props EXCEPT ![name] = v]
    /\ metadata' = [r \in Ranks |-> clear_cached_metadata(metadata[r])]
    /\ mods' = mods + 1
    /\ lastOp' = [op |-> "set_property", rank |-> 0]
    /\ UNCHANGED <<nc, disk, writable, n_ranks, pc, ret, effects, chan, recvd,
                   loaded, examined>>

\* lines 1152-1157, 1178-1180: the extent of a request indexes the coordinate
\* arrays unchecked; the extents requested are inside the reported whole_extent
ExtentInside(req, md) ==
    (Has(req, "extent") /\ ~IsEmpty(md)) =>
        \A a \in {1, 3, 5} :
            /\ md.whole_extent[a] <= req.extent[a]
            /\ req.extent[a] <= req.extent[a + 1]
            /\ req.extent[a + 1] <= md.whole_extent[a + 1]

\* teca_cf_reader::execute
Execute(r, req, io_error) ==
    /\ pc[r] = "idle"
    /\ ExtentInside(req, metadata[r])
    /\ request' = req
    /\ out' = ExecuteReader(props, metadata[r], nc, req, io_error)
    /\ lastOp' = [op |-> "execute", rank |-> r]
    /\ UNCHANGED <<props, nc, disk, writable, n_ranks, metadata, pc, ret, effects,
                   chan, recvd, loaded, examined, mods>>
    /\ UNCHANGED <<keyVars, stageVars>>

notReader == <<execVars, keyVars, stageVars>>

\* lines 244-307: the files and the metadata_cache_key of a configuration; the
\* key is computed only with cache_metadata set
MetadataCacheKey(p, loc) ==
    IF ~loc.ok THEN [located |-> FALSE, has |-> FALSE]
    ELSE IF p.cache_metadata = 0
         THEN [located |-> TRUE, files |-> loc.files, has |-> FALSE]
         ELSE [located |-> TRUE, files |-> loc.files, has |-> TRUE,
               key |-> CacheKey(p, PATH, loc.files)]

\* a property of the second configuration is given another value
SetOther(name, v) ==
    /\ other = props
    /\ ~keys.computed
    /\ v # props[name]
    /\ other' = [other EXCEPT ![name] = v]
    /\ UNCHANGED <<keys, readerVars, execVars, stageVars>>

\* both configurations compute their key
CreateKeys ==
    /\ ~keys.computed
    /\ keys' = [computed |-> TRUE,
                a |-> MetadataCacheKey(props, LocateFiles(props, nc)),
                b |-> MetadataCacheKey(other, LocateFiles(other, nc))]
    /\ UNCHANGED <<other, readerVars, execVars, stageVars>>

\* the metadata a stage may be handed by what is upstream of it: the reader's,
\* or that of a source that reports less
UpstreamMetadata(md) ==
    IF IsEmpty(md) THEN {md}
    ELSE {md, MdRemove(md, "coordinates"), MdRemove(md, "number_of_time_steps"),
          MdRemove(md, "index_initializer_key")}

StageReported(input_md, r) ==
    /\ st' = [op |-> "report", in |-> input_md, out |-> r.md, error |-> r.error,
              crashed |-> r.crashed]
    /\ stcfg' = r.cfg
    /\ UNCHANGED <<readerVars, execVars, keyVars>>

\* the stage reports its metadata
StageGetOutputMetadata(input_md) ==
    /\ stcfg.alg # "none"
    /\ StageReported(input_md, get_output_metadata(stcfg, input_md))

StageRequested(req, r) ==
    /\ st' = [op |-> "request", req |-> req, up |-> r.up, error |-> r.error]
    /\ UNCHANGED <<stcfg, readerVars, execVars, keyVars>>

\* the pipeline asks for requests after the stage has reported: the extent of
\* teca_cartesian_mesh_subset is set
CanRequest == stcfg.alg = "cartesian_mesh_subset" => stcfg.extent # <<>>

\* the stage translates a request
StageGetUpstreamRequest(req) ==
    /\ stcfg.alg # "none"
    /\ CanRequest
    /\ StageRequested(req, get_upstream_request(stcfg, metadata[0], req))

StagePulled(req, up, mesh) ==
    /\ request' = up[1]
    /\ out' = mesh
    /\ st' = [op |-> "execute", req |-> req, up |-> up, error |-> FALSE,
              out |-> StageExecute(stcfg, mesh, req)]
    /\ lastOp' = [op |-> "execute", rank |-> 0]
    /\ UNCHANGED <<props, nc, disk, writable, n_ranks, metadata, pc, ret, effects,
                   chan, recvd, loaded, examined, mods>>
    /\ UNCHANGED <<stcfg, keyVars>>

StagePull(req, up) ==
    /\ up # <<>>
    /\ StagePulled(req, up, ExecuteReader(props, metadata[0], nc, up[1], FALSE))

\* a request is pulled through the stage: it is translated, the reader
\* executes the upstream request and the stage executes on the reader's mesh
StageExecuteRequest(req) ==
    /\ stcfg.alg \in {"vorticity", "vertical_integral", "cartesian_mesh_subset"}
    /\ CanRequest
    /\ pc[0] = "idle"
    /\ StagePull(req, get_upstream_request(stcfg, metadata[0], req).up)

\* teca_dataset_diff::execute on the datasets ds0 and ds1
DatasetDiffExecute(ds0, ds1) ==
    /\ stcfg.alg = "dataset_diff"
    /\ st' = [op |-> "diff", ds0 |-> ds0, ds1 |-> ds1,
              error |-> dataset_diff_execute(stcfg, ds0, ds1).error,
              result |-> dataset_diff_execute(stcfg, ds0, ds1).result]
    /\ UNCHANGED <<stcfg, readerVars, execVars, keyVars>>

\* teca_dataset_diff::get_upstream_request on the metadata of its two inputs
DatasetDiffGetUpstreamRequest(input_md_0, input_md_1, req) ==
    /\ stcfg.alg = "dataset_diff"
    /\ st' = [op |-> "diff_request", input_md |-> <<input_md_0, input_md_1>>,
              req |-> req,
              up |-> dataset_diff_get_upstream_request(stcfg, input_md_0, input_md_1, req).up,
              error |-> dataset_diff_get_upstream_request(stcfg, input_md_0, input_md_1, req).error]
    /\ UNCHANGED <<stcfg, readerVars, execVars, keyVars>>

\* lines 293-316: execute runs the kernel on a mesh of nx longitudes and ny
\* latitudes. An access outside an array is undefined: the kernel is ended by
\* a signal or returns
VorticityKernel(nx, ny, returns) ==
    /\ stcfg.alg = "vorticity"
    /\ OutOfBounds(nx, ny) = {} => returns
    /\ st' = [op |-> "kernel", nx |-> nx, ny |-> ny,
              reads |-> vorticity(nx, ny).reads,
              writes |-> vorticity(nx, ny).writes,
              returns |-> returns,
              w |-> [k \in 0..(nx * ny - 1) |-> k \in vorticity(nx, ny).computed]]
    /\ UNCHANGED <<stcfg, readerVars, execVars, keyVars>>

\* teca_dataset_diff::compare_arrays on two arrays
CompareArrays(array1, array2) ==
    /\ stcfg.alg = "dataset_diff"
    /\ st' = [op |-> "compare_arrays", array1 |-> array1, array2 |-> array2,
              result |-> compare_arrays(stcfg, array1, array2)]
    /\ UNCHANGED <<stcfg, readerVars, execVars, keyVars>>

\* ------------------------------------------------- the index executive
\* a partition that gives every rank N / P indices
block_Truncated(r, N, P) == (r * (N \div P))..((r + 1) * (N \div P) - 1)

\* the indices of rank r of P when N indices are partitioned:
\* [r*N/P, (r+1)*N/P), the divisions those of integers
block(r, N, P) == ((r * N) \div P)..((((r + 1) * N) \div P) - 1)

\* the executive is initialized on a pipeline of N work indices
IndexExecutiveInitialize(N) ==
    /\ st.op = "init"
    /\ st' = [op |-> "executive", N |-> N, ran |-> {}, requests |-> {}]
    /\ UNCHANGED <<stcfg, readerVars, execVars, keyVars>>

\* rank r issues the requests of its indices and executes them
IndexExecutiveRun(r) ==
    /\ st.op = "executive"
    /\ r \notin st.ran
    /\ st' = [st EXCEPT !.ran = @ \cup {r},
                        !.requests = @ \cup {<<r, i>> : i \in block(r, st.N, n_ranks)}]
    /\ UNCHANGED <<stcfg, readerVars, execVars, keyVars>>

\* ---------------------------------------- teca_bayesian_ar_detect: main
\* teca_bayesian_ar_detect.cpp lines 239-253: the reader the pipeline starts at;
\* head stays a null pointer when neither input option is given
head(o) ==
    IF o.input_file THEN "mcf_reader"
    ELSE IF o.input_regex THEN "cf_reader" ELSE "null"

\* lines 305-328: head->get_output_port() is called when the ivt calculation
\* stages are added
DerefsNullHead(o) == (o.compute_ivt \/ o.compute_ivt_magnitude) /\ head(o) = "null"

\* lines 310-327: the stages whose input is connected to head's output port,
\* before the checks of the options
ConnectedToHead(o) ==
    IF o.compute_ivt THEN {"ivt_int"}
    ELSE IF o.compute_ivt_magnitude THEN {"l2_norm"} ELSE {}

\* what the call through the null pointer can do: the process is killed by the
\* signal, or the call returns and main goes on
NullDeref == {"SIGSEGV", "continue"}

\* lines 371-402: the checks before the pipeline is connected; the value main
\* returns, 0 when it goes on
CheckOptions(o) ==
    IF (o.input_file /\ o.input_regex) \/ ~(o.input_file \/ o.input_regex) THEN -1
    ELSE IF o.compute_ivt /\ o.compute_ivt_magnitude THEN -1
    ELSE IF ~o.output_file THEN -1
    ELSE 0

\* the exit status of a process whose main returns rv
ExitStatus(rv) == rv % 256

\* main of teca_bayesian_ar_detect run with the options o on one rank (no help
\* option, no --start_date or --end_date). The reader is constructed by the
\* process and holds no metadata; --input_regex is the files_regex of props;
\* cf_writer->update() runs the report of the reader and fails when the
\* report is empty. Line 498 returns 0 after update().
Main(o, order, ub) ==
    /\ n_ranks = 1 /\ pc[0] = "idle"
    /\ IF DerefsNullHead(o) /\ ub = "SIGSEGV"
       THEN /\ st' = [op |-> "main", opts |-> o, how |-> "signal", status |-> 11,
                      updated |-> FALSE, failed |-> FALSE,
                      connected |-> ConnectedToHead(o)]
            /\ UNCHANGED readerVars
       ELSE IF CheckOptions(o) # 0
       THEN /\ st' = [op |-> "main", opts |-> o, how |-> "exit",
                      status |-> ExitStatus(CheckOptions(o)),
                      updated |-> FALSE, failed |-> FALSE,
                      connected |-> ConnectedToHead(o)]
            /\ UNCHANGED readerVars
       ELSE /\ RootReturns(0, RootReport(props, nc, disk, writable, order))
            /\ st' = [op |-> "main", opts |-> o, how |-> "exit",
                      status |-> ExitStatus(0), updated |-> TRUE,
                      failed |-> IsEmpty(RootReport(props, nc, disk, writable, order).md),
                      connected |-> ConnectedToHead(o)]
    /\ UNCHANGED <<stcfg, execVars, keyVars>>

\* an option of the command line: not given, or given with a value
NotGiven == <<>>

\* lines 71-76 and 92: an option declared with default_value is stored in
\* opt_vals with that value when the command line does not give it, and
\* opt_vals.count of it is 1
default_value(given, v) == IF given = NotGiven THEN <<v>> ELSE given

\* lines 190-210: the command line cmd parsed into opt_vals
ParseCommandLine(cmd) ==
    [cmd EXCEPT !.wind_u = default_value(@, "U"),
                !.wind_v = default_value(@, "V"),
                !.periodic_in_x = default_value(@, 1)]

\* a property set from an option if opt_vals.count of the option is not 0:
\* set_properties of a stage for its advanced option, and the if blocks of
\* lines 255-284 for a basic option
SetIfCounted(value, opt) == IF Len(opt) # 0 THEN opt[1] ELSE value

\* lines 96-126 and 219-284: the stages are constructed with their defaults,
\* take the advanced options, then the basic options
ConfiguredPipeline(opt_vals) ==
    [ivt_int |->
        [wind_u_variable |->
            SetIfCounted(SetIfCounted("U", opt_vals.ivt_integral_wind_u_variable),
                         opt_vals.wind_u),
         wind_v_variable |->
            SetIfCounted(SetIfCounted("V", opt_vals.ivt_integral_wind_v_variable),
                         opt_vals.wind_v)],
     cf_reader |->
        [periodic_in_x |->
            SetIfCounted(SetIfCounted(Defaults.periodic_in_x,
                                      opt_vals.cf_reader_periodic_in_x),
                         opt_vals.periodic_in_x)]]

\* main parses the command line cmd and configures the stages
ConfigurePipeline(cmd) ==
    /\ st' = [op |-> "configure", cmd |-> cmd,
              ivt_int |-> ConfiguredPipeline(ParseCommandLine(cmd)).ivt_int,
              cf_reader |-> ConfiguredPipeline(ParseCommandLine(cmd)).cf_reader]
    /\ UNCHANGED <<stcfg, readerVars, execVars, keyVars>>

\* the environment: the read permission of a cache file is flipped
Chmod(d) ==
    /\ \E k \in DOMAIN disk[d] :
         disk' = [disk EXCEPT ![d] = MdSet(@, k, [@[k] EXCEPT !.readable = ~@])]
    /\ lastOp' = [op |-> "env", rank |-> 0]
    /\ UNCHANGED <<props, nc, writable, n_ranks, metadata, pc, ret, effects, chan,
                   recvd, loaded, examined, mods>>

\* ------------------------------------------ the reader on a single process
TimeConfigs ==
    {[Defaults EXCEPT !.t_axis_variable = tv, !.t_values = TValues(n),
                      !.t_calendar = c, !.t_units = u,
                      !.filename_time_template = ft, !.cache_metadata = cm] :
        tv \in {"time", ""}, n \in 0..2, c \in {"", "noleap"}, u \in {"", "days"},
        ft \in {"", "%Y"}, cm \in {0, 1}}

AllWritable == [d \in CacheDirs |-> TRUE]

Init ==
    /\ InitReader({1}, TimeConfigs, Datasets, {AllWritable})
    /\ InitExec /\ InitNoKey /\ InitNoStage

Next ==
    \/ \E r \in Ranks : GetOutputMetadataRoot(r) /\ UNCHANGED notReader
    \/ \E r \in Ranks : SetModified(r) /\ UNCHANGED notReader

Spec == Init /\ [][Next]_vars

\* ------------------------- the reader and its metadata cache directories
CacheConfigs == {[Defaults EXCEPT !.metadata_cache_dir = d] : d \in {"", "udir"}}

CacheDatasets ==
    {[i \in 1..m |-> [n |-> MaxSteps, calendar |-> "noleap", units |-> "days"]] :
        m \in 1..MaxFiles}

\* the properties set in this specification
CacheProps == {"metadata_cache_dir", "cache_metadata", "thread_pool_size",
               "x_axis_variable", "periodic_in_x"}

\* every directory takes new files, or only HOME and the working directory do
WritableSets ==
    {AllWritable, [d \in CacheDirs |-> d \in {HOME_DIR, CWD_DIR}]}

InitCache ==
    /\ InitReader({1}, CacheConfigs, CacheDatasets, WritableSets)
    /\ InitExec /\ InitNoKey /\ InitNoStage

NextCache ==
    \/ \E r \in Ranks : GetOutputMetadataRoot(r) /\ UNCHANGED notReader
    \/ \E r \in Ranks : SetModified(r) /\ UNCHANGED notReader
    \/ \E name \in CacheProps : \E v \in PropValues[name] :
            SetProperty(name, v) /\ UNCHANGED notReader
    \/ \E d \in CacheDirs : Chmod(d) /\ UNCHANGED notReader

SpecCache == InitCache /\ [][NextCache]_vars

\* ------------------------------------------- the reader on several ranks
MPIConfigs ==
    {[Defaults EXCEPT !.cache_metadata = cm, !.x_axis_variable = x] :
        cm \in {0, 1}, x \in {"lon", "bad"}}

\* the properties set in this specification
MPIProps == {"periodic_in_x", "x_axis_variable"}

InitMPI ==
    /\ InitReader(2..MaxRanks, MPIConfigs, CacheDatasets, {AllWritable})
    /\ InitExec /\ InitNoKey /\ InitNoStage

NextMPI ==
    \/ \E r \in Ranks : GetOutputMetadataRoot(r) /\ UNCHANGED notReader
    \/ \E r \in Ranks : GetOutputMetadataEnter(r) /\ UNCHANGED notReader
    \/ \E r \in Ranks : BroadcastReceive(r) /\ UNCHANGED notReader
    \/ \E r \in Ranks : SetModified(r) /\ UNCHANGED notReader
    \/ \E name \in MPIProps : \E v \in PropValues[name] :
            SetProperty(name, v) /\ UNCHANGED notReader

SpecMPI == InitMPI /\ [][NextMPI]_vars

\* ------------------------- one collective report of the reader on P > 1 ranks
\* readers whose scan succeeds, finds no file, or finds no x axis
CollectiveConfigs ==
    {[Defaults EXCEPT !.x_axis_variable = x, !.files_regex = re] :
        x \in {"lon", "bad"}, re \in {"re", "nomatch"}}

\* files of one calendar and files of two
CollectiveDatasets ==
    CacheDatasets
    \cup {<<[n |-> MaxSteps, calendar |-> "noleap", units |-> "days"],
            [n |-> MaxSteps, calendar |-> "standard", units |-> "days"]>>}

\* the ranks that have called get_output_metadata
Called(r) == st' = [st EXCEPT !.called = @ \cup {r}] /\ UNCHANGED <<stcfg, execVars, keyVars>>

InitCollective ==
    /\ InitReader(2..MaxRanks, CollectiveConfigs, CollectiveDatasets, {AllWritable})
    /\ InitExec /\ InitNoKey
    /\ stcfg = NoStage
    /\ st = [op |-> "collective", called |-> {}]

\* every rank calls get_output_metadata once
NextCollective ==
    \/ \E r \in Ranks \ st.called : GetOutputMetadataRoot(r) /\ Called(r)
    \/ \E r \in Ranks \ st.called : GetOutputMetadataEnter(r) /\ Called(r)
    \/ \E r \in Ranks : BroadcastReceive(r) /\ UNCHANGED notReader

\* a rank that can take a step does so
SpecCollective == InitCollective /\ [][NextCollective]_vars /\ WF_vars(NextCollective)

\* ----------------------------------------- the reader reporting and reading
\* the time axis of the files with every choice of y and z axis, and a
\* synthetic time axis over the files named
ExecConfigs ==
    {[Defaults EXCEPT !.y_axis_variable = y, !.z_axis_variable = z] :
        y \in {"lat", ""}, z \in {"", "plev"}}
    \cup {[Defaults EXCEPT !.t_axis_variable = "", !.z_axis_variable = z,
                           !.file_names = FileNames(MaxFiles)] : z \in {"", "plev"}}

ExecDatasets ==
    UNION {[1..m -> [n : 1..MaxSteps, calendar : {"noleap"}, units : {"days"}]] :
              m \in 1..MaxFiles}

\* the requests made of the reader
ReqSteps == {MdSet(EmptyMD, "time_step", i) : i \in 0..MaxReqStep}

ReqTimes == {EmptyMD} \cup {MdSet(EmptyMD, "time", v) : v \in {12, 21, 99}}

ReqArrays == {<<>>, <<"T">>, <<"Q", "T">>, <<"T", "foo">>, <<"a_bnds">>}

ReqRegions ==
    {MdSet(EmptyMD, "extent", <<0, 1, 0, 0, 0, 0>>),
     MdSet(EmptyMD, "extent", <<1, 2, 0, 1, 0, 0>>),
     MdSet(EmptyMD, "extent", <<0, 2, 1, 1, 0, 1>>),
     MdSet(EmptyMD, "bounds", <<0, 10, -10, -10, 1000, 1000>>),
     MdSet(EmptyMD, "bounds", <<10, 20, -10, 10, 1000, 500>>),
     MdSet(EmptyMD, "bounds", <<10, 20, 0, 0, 0, 0>>),
     MdSet(EmptyMD, "bounds", <<5, 15, -10, 10, 500, 500>>),
     MdSet(EmptyMD, "bounds", <<0, 30, -10, 10, 1000, 500>>)}

WithArrays(req, c) == IF c = <<>> THEN req ELSE MdSet(req, "arrays", c)

\* every step with every choice of arrays, and every time and every region
\* with one array
Requests ==
    {WithArrays(a, c) : a \in ReqSteps, c \in ReqArrays}
    \cup {WithArrays(a, <<"T">>) : a \in ReqTimes}
    \cup {WithArrays(MdSet(b, "time_step", 0), <<"Q", "T", "Tx">>) : b \in ReqRegions}

InitReadMesh ==
    /\ InitReader({1}, ExecConfigs, ExecDatasets, {AllWritable})
    /\ InitExec /\ InitNoKey /\ InitNoStage

NextExec ==
    \/ \E r \in Ranks : GetOutputMetadataRoot(r) /\ UNCHANGED notReader
    \/ \E r \in Ranks : \E req \in Requests :
            \E io_error \in {e \in BOOLEAN : e => Has(req, "arrays")} :
                Execute(r, req, io_error)

SpecExec == InitReadMesh /\ [][NextExec]_vars

\* ---------------------------------- the cache keys of two configurations
KeyConfigs ==
    {[Defaults EXCEPT !.file_names = fn, !.metadata_cache_dir = d, !.t_units = u] :
        fn \in {<<>>, FileNames(MaxFiles)}, d \in {"", "udir"}, u \in {"", "days"}}

InitKeys ==
    /\ InitReader({1}, KeyConfigs, CacheDatasets, {AllWritable})
    /\ InitExec /\ InitKey /\ InitNoStage

NextKeys ==
    \/ \E name \in PropNames : \E v \in PropValues[name] : SetOther(name, v)
    \/ CreateKeys

SpecKey == InitKeys /\ [][NextKeys]_vars

\* ------------------------------------- a transform stage on the reader
StageReaderConfigs == {[Defaults EXCEPT !.z_axis_variable = z] : z \in {"", "plev"}}

StageConfigs ==
    {[VorticityDefaults EXCEPT !.component_0_variable = a, !.component_1_variable = b,
                               !.vorticity_variable = w] :
        a \in {"", "u"}, b \in {"", "v"}, w \in {"vorticity", ""}}
    \cup {[VerticalIntegralDefaults EXCEPT !.using_hybrid = h, !.p_top_override_value = t,
                                          !.integration_variable = i,
                                          !.output_variable_name = o] :
             h \in {0, 1}, t \in {-1, 0}, i \in {"", "Q"}, o \in {"", "Q_int"}}
    \cup {[MeshSubsetDefaults EXCEPT !.bounds = b, !.cover_bounds = c] :
             b \in {<<0, 10, -10, 10, 1000, 500>>, <<0, 30, -10, 10, 1000, 500>>},
             c \in BOOLEAN}
    \cup {DatasetDiffDefaults}

\* the requests made of the stage
StageRequests ==
    {[time_step |-> 0],
     [time_step |-> 0, arrays |-> <<"vorticity">>],
     [time_step |-> 0, arrays |-> <<"Q_int", "T">>],
     [time_step |-> 0, arrays |-> <<"T">>, bounds |-> <<0, 10, -10, 10, 1000, 500>>],
     MdSet(MdSet([time_step |-> 0, arrays |-> <<"vorticity">>],
                 "teca_vorticity::component_0_variable", "u"),
           "teca_vorticity::component_1_variable", "v"),
     MdSet(MdSet(MdSet([time_step |-> 0, arrays |-> <<"w">>],
                       "teca_vorticity::component_0_variable", "u"),
                 "teca_vorticity::component_1_variable", "v"),
           "teca_vorticity::vorticity_variable", "w"),
     [test_id |-> 1]}

InitStages ==
    /\ InitReader({1}, StageReaderConfigs, CacheDatasets, {AllWritable})
    /\ InitExec /\ InitNoKey
    /\ stcfg \in StageConfigs
    /\ st = [op |-> "init"]

NextStages ==
    \/ \E r \in Ranks : GetOutputMetadataRoot(r) /\ UNCHANGED notReader
    \/ \E input_md \in UpstreamMetadata(metadata[0]) : StageGetOutputMetadata(input_md)
    \/ \E req \in StageRequests : StageGetUpstreamRequest(req)
    \/ \E req \in StageRequests : StageExecuteRequest(req)

SpecStages == InitStages /\ [][NextStages]_vars

\* ------------------------------------------------- teca_dataset_diff
\* the tolerances given to the stage, in millionths: none, the default, a half
Tolerances == {0, 1, 500000}

\* the arrays of n elements; a string element is one character, held by its
\* character code
DiffArrays(n) ==
    {[type |-> "int", vals |-> v] : v \in [1..n -> {100, 101}]}
    \cup {[type |-> "double", vals |-> v] : v \in [1..n -> {0, 100, NaN}]}
    \cup {[type |-> "string", vals |-> v] : v \in [1..n -> {97, 98}]}

Table(cols) == [class |-> "table", cols |-> cols]

\* the empty table, tables of one column of one row or of MaxRows rows, and
\* tables of two columns
DiffTables ==
    {Table(<<>>)}
    \cup {Table(<<c>>) : c \in DiffArrays(1)}
    \cup {Table(<<[type |-> t, vals |-> [i \in 1..MaxRows |-> 100]]>>) :
            t \in {"int", "double"}}
    \cup {Table(<<c1, c2>>) :
            c1 \in {[type |-> "double", vals |-> <<v>>] : v \in {0, 100, NaN}},
            c2 \in {[type |-> "int", vals |-> <<100>>], [type |-> "string", vals |-> <<97>>]}}

NoArrays == [name \in {} |-> 0]

Doubles(v) == [type |-> "double", vals |-> v]

CartesianMesh(x, point, info) ==
    [class |-> "cartesian_mesh",
     arrays |-> [k \in Range(MeshArrayKinds) |->
                    IF k = "point" THEN point
                    ELSE IF k = "information" THEN info ELSE NoArrays],
     x |-> x, y |-> Doubles(<<0>>), z |-> Doubles(<<0>>)]

DiffMeshes ==
    {CartesianMesh(x, point, info) :
        x \in {Doubles(<<0, 100>>), Doubles(<<0>>)},
        point \in {NoArrays,
                   "T" :> Doubles(<<100, 100>>),
                   "T" :> Doubles(<<NaN, 100>>),
                   ("T" :> Doubles(<<100, 100>>)) @@ ("u" :> Doubles(<<0, 0>>))},
        info \in {NoArrays, "n" :> [type |-> "int", vals |-> <<1>>]}}

\* the two inputs of the stage are datasets of one class
DiffInputs == (DiffTables \X DiffTables) \cup (DiffMeshes \X DiffMeshes)

\* the metadata of an input: a reader's, a table source's, that of a stage
\* whose requests are indexed by test_id, and one without index_request_key
DiffInputMetadata ==
    {[index_initializer_key |-> "number_of_time_steps", number_of_time_steps |-> 2,
      index_request_key |-> "time_step"],
     [index_initializer_key |-> "number_of_tables", number_of_tables |-> 2,
      index_request_key |-> "table_id"],
     [index_initializer_key |-> "number_of_tests", number_of_tests |-> 2,
      index_request_key |-> "test_id"],
     [index_initializer_key |-> "number_of_tables", number_of_tables |-> 2]}

\* the requests made of the stage
DiffRequests ==
    {[test_id |-> 1],
     [test_id |-> 0, arrays |-> <<"T">>],
     [test_id |-> 1, arrays |-> <<"T">>, time_step |-> 0, index_request_key |-> "test_id"],
     [arrays |-> <<"T">>]}

InitDiff ==
    /\ InitReader({1}, {Defaults}, {<<[n |-> MaxSteps, calendar |-> "noleap", units |-> "days"]>>},
                  {AllWritable})
    /\ InitExec /\ InitNoKey
    /\ stcfg \in {[DatasetDiffDefaults EXCEPT !.tolerance = t] : t \in Tolerances}
    /\ st = [op |-> "init"]

NextDiff ==
    \/ \E ds \in DiffInputs : DatasetDiffExecute(ds[1], ds[2])
    \/ \E array1, array2 \in UNION {DiffArrays(n) : n \in 0..MaxRows} :
            CompareArrays(array1, array2)
    \/ \E input_md_0, input_md_1 \in DiffInputMetadata : \E req \in DiffRequests :
            DatasetDiffGetUpstreamRequest(input_md_0, input_md_1, req)

SpecDiff == InitDiff /\ [][NextDiff]_vars

\* ------------------------------------------------- the vorticity kernel
\* the meshes have up to MaxNx longitudes and MaxNy latitudes
MaxNx == 9

MaxNy == 9

InitKernel ==
    /\ InitReader({1}, {Defaults}, {<<[n |-> MaxSteps, calendar |-> "noleap", units |-> "days"]>>},
                  {AllWritable})
    /\ InitExec /\ InitNoKey
    /\ stcfg = VorticityDefaults
    /\ st = [op |-> "init"]

NextKernel ==
    \E nx \in 1..MaxNx, ny \in 1..MaxNy, returns \in BOOLEAN : VorticityKernel(nx, ny, returns)

SpecKernel == InitKernel /\ [][NextKernel]_vars

\* -------------------------------- the index executive on 1 to MaxRanks ranks
InitExecutive ==
    /\ InitReader(1..MaxRanks, {Defaults},
                  {<<[n |-> MaxSteps, calendar |-> "noleap", units |-> "days"]>>},
                  {AllWritable})
    /\ InitExec /\ InitNoKey /\ InitNoStage

NextExecutive ==
    \/ \E N \in 0..MaxIndices : IndexExecutiveInitialize(N)
    \/ \E r \in Ranks : IndexExecutiveRun(r)

SpecExecutive == InitExecutive /\ [][NextExecutive]_vars

\* ------------------------------------ runs of teca_bayesian_ar_detect
\* each option is given or not
AppOptions ==
    [input_file : BOOLEAN, input_regex : BOOLEAN, compute_ivt : BOOLEAN,
     compute_ivt_magnitude : BOOLEAN, output_file : BOOLEAN]

\* the regex matches the files of the dataset or none
AppConfigs ==
    {[Defaults EXCEPT !.files_regex = re, !.cache_metadata = cm] :
        re \in {"re", "nomatch"}, cm \in {0, 1}}

AppDatasets ==
    UNION {[1..m -> [n : {0, MaxSteps}, calendar : {"noleap", "standard"},
                     units : {"days"}]] : m \in 1..MaxFiles}

InitApp ==
    /\ InitReader({1}, AppConfigs, AppDatasets, {AllWritable})
    /\ InitExec /\ InitNoKey /\ InitNoStage

NextApp ==
    \/ \E o \in AppOptions : \E order \in TaskOrders : \E ub \in NullDeref :
            Main(o, order, ub)
    \/ \E d \in CacheDirs : Chmod(d) /\ UNCHANGED notReader

SpecApp == InitApp /\ [][NextApp]_vars

\* ----------------- the command lines of teca_bayesian_ar_detect's options
Optional(S) == {NotGiven} \cup {<<v>> : v \in S}

CommandLines ==
    [wind_u : Optional({"U", "ua"}), wind_v : Optional({"va"}),
     periodic_in_x : Optional({0, 1}),
     ivt_integral_wind_u_variable : Optional({"u850"}),
     ivt_integral_wind_v_variable : Optional({"v850"}),
     cf_reader_periodic_in_x : Optional({0})]

InitOptions ==
    /\ InitReader({1}, {Defaults}, {<<[n |-> MaxSteps, calendar |-> "noleap", units |-> "days"]>>},
                  {AllWritable})
    /\ InitExec /\ InitNoKey /\ InitNoStage

NextOptions == \E cmd \in CommandLines : ConfigurePipeline(cmd)

SpecOptions == InitOptions /\ [][NextOptions]_vars

\* -------------------------- the reader on files of differing time axes
FilesConfigs ==
    {[Defaults EXCEPT !.t_calendar = c, !.t_units = u, !.cache_metadata = cm] :
        c \in {"", "noleap"}, u \in {"", "days"}, cm \in {0, 1}}

FilesDatasets ==
    UNION {[1..m -> [n : 0..MaxSteps, calendar : Calendars, units : {"days", "hours"}]] :
              m \in 1..MaxFiles}

InitFiles ==
    /\ InitReader({1}, FilesConfigs, FilesDatasets, {AllWritable})
    /\ InitExec /\ InitNoKey /\ InitNoStage

NextFiles ==
    \/ \E r \in Ranks : GetOutputMetadataRoot(r) /\ UNCHANGED notReader
    \/ \E r \in Ranks : SetModified(r) /\ UNCHANGED notReader

SpecFiles == InitFiles /\ [][NextFiles]_vars

\* ------------------------------------------------------------- claims
\* a report of rank r has just returned md
Reported(r) == lastOp.op = "report" /\ lastOp.rank = r

\* C2: every successful report carries index_initializer_key =
\* "number_of_time_steps" and index_request_key = "time_step", and the value
\* stored under the initializer key is the length of the reported time axis
\* coordinates.t, whatever the time axis strategy.
C2_IndexKeys ==
    \A r \in Ranks :
        (Reported(r) /\ ~IsEmpty(ret[r])) =>
            /\ Has(ret[r], "index_initializer_key")
            /\ Has(ret[r], "index_request_key")
            /\ ret[r].index_initializer_key = "number_of_time_steps"
            /\ ret[r].index_request_key = "time_step"
            /\ Has(ret[r], ret[r].index_initializer_key)
            /\ ret[r][ret[r].index_initializer_key] = Len(ret[r].coordinates.t)

\* a successful report from the files with more time steps than files
C2_Witness ==
    /\ Reported(0) /\ ~IsEmpty(ret[0])
    /\ Strategy(props) = "files"
    /\ Len(ret[0].coordinates.t) > Len(ret[0].files)
    /\ Len(ret[0].files) > 1

C2_WitnessValues == Reported(0) /\ ~IsEmpty(ret[0]) /\ Strategy(props) = "values"

C2_WitnessNames == Reported(0) /\ ~IsEmpty(ret[0]) /\ Strategy(props) = "names"

C2_WitnessSynthetic == Reported(0) /\ ~IsEmpty(ret[0]) /\ Strategy(props) = "synthetic"

\* C3: a call of get_output_metadata made while the reader holds metadata
\* (no set_modified since the successful call that produced it) returns that
\* same metadata, keeps it, and neither locates files, nor reads or writes a
\* cache file, nor opens or scans a file; and the metadata held is what the
\* last call returned.
C3_SecondCall ==
    /\ [](\A r \in Ranks : ~IsEmpty(metadata[r]) => ret[r] = metadata[r])
    /\ [][\A r \in Ranks :
            (~IsEmpty(metadata[r]) /\ pc[r] = "idle"
                /\ lastOp'.op = "report" /\ lastOp'.rank = r) =>
               /\ ret'[r] = metadata[r]
               /\ metadata'[r] = metadata[r]
               /\ effects'[r] = {}
               /\ disk' = disk]_vars

\* a second call has returned the cached metadata
C3_Witness ==
    /\ Reported(0) /\ ~IsEmpty(ret[0]) /\ effects[0] = {}
    /\ metadata[0] = ret[0]

\* the reported metadata md agrees with the property values p
Consistent(md, p) ==
    /\ md.coordinates.x_variable = p.x_axis_variable
    /\ (p.y_axis_variable # "" => md.coordinates.y_variable = p.y_axis_variable)
    /\ (p.z_axis_variable # "" => md.coordinates.z_variable = p.z_axis_variable)
    /\ (p.z_axis_variable = "" => Len(md.coordinates.z) = 1)
    /\ md.coordinates.periodic_in_x = p.periodic_in_x
    /\ md.coordinates.periodic_in_y = p.periodic_in_y
    /\ md.coordinates.periodic_in_z = p.periodic_in_z
    /\ (p.file_names # <<>> => md.files = p.file_names)

\* C4: after set_modified the cached metadata is empty, so the next
\* get_output_metadata does not return it but derives the metadata again, from
\* a cache file or by scanning the files, and what it returns (and the reader
\* then holds) agrees with the property values in force.
C4_Invalidate ==
    /\ [](lastOp.op = "set_modified" => IsEmpty(metadata[lastOp.rank]))
    /\ [](lastOp.op = "set_property" => \A r \in Ranks : IsEmpty(metadata[r]))
    /\ [](\A r \in Ranks : ~IsEmpty(metadata[r]) => Consistent(metadata[r], props))
    /\ [][\A r \in Ranks :
            (IsEmpty(metadata[r]) /\ pc[r] = "idle"
                /\ lastOp'.op = "report" /\ lastOp'.rank = r) =>
               /\ "files" \in effects'[r]
               /\ ~IsEmpty(ret'[r]) =>
                    /\ {"cache_read", "scan"} \cap effects'[r] # {}
                    /\ Consistent(ret'[r], props')]_vars

\* a report before and a report after a property of the cache key was changed
C4_Witness ==
    /\ mods = 1 /\ Reported(0) /\ ~IsEmpty(ret[0])
    /\ props.periodic_in_x = 1
    /\ Cardinality(UNION {DOMAIN disk[d] : d \in CacheDirs}) = 2

\* the search order of the code: the user's directory when one is set, then
\* the data directory, the working directory and HOME
CodeOrder(p) ==
    IF p.metadata_cache_dir = "" THEN <<ROOT_DIR, CWD_DIR, HOME_DIR>>
    ELSE <<USER_DIR, ROOT_DIR, CWD_DIR, HOME_DIR>>

\* the search order as documented
DocOrder(p) ==
    IF p.metadata_cache_dir = "" THEN <<HOME_DIR, CWD_DIR, ROOT_DIR>>
    ELSE <<HOME_DIR, CWD_DIR, ROOT_DIR, USER_DIR>>

IsPrefix(a, b) == Len(a) <= Len(b) /\ \A i \in 1..Len(a) : a[i] = b[i]

\* the readable cache files of the reader's current key
ReadableIn(d) ==
    /\ LocateFiles(props, nc).ok
    /\ FileExists(disk, d, CacheKey(props, PATH, LocateFiles(props, nc).files))
    /\ disk[d][CacheKey(props, PATH, LocateFiles(props, nc).files)].readable

\* the directory of order the cache is expected from
FirstReadable(order) ==
    order[CHOOSE i \in 1..Len(order) :
            /\ ReadableIn(order[i])
            /\ \A j \in 1..(i - 1) : ~ReadableIn(order[j])]

\* the last step was a report that looked for a cache file and loaded one
CacheLoaded == Reported(0) /\ "cache_read" \in effects[0] /\ loaded # -1

\* cache files of the current key are in more than one searched directory
SeveralCaches(order) == Cardinality({d \in Range(order) : ReadableIn(d)}) > 1

\* C6 as amended: the lookup examines the user's directory (when
\* metadata_cache_dir is set), then the data directory, the working directory
\* and HOME, and loads the first readable cache file in that order.
C6_CodeOrder ==
    (Reported(0) /\ "cache_lookup" \in effects[0]) =>
        /\ IsPrefix(examined, CodeOrder(props))
        /\ CacheLoaded =>
             /\ loaded = FirstReadable(CodeOrder(props))
             /\ examined[Len(examined)] = loaded
             /\ ret[0] = FromStream(disk[loaded][CacheKey(props, PATH, ret[0].files)].data)

\* readable cache files in two directories, and the report loaded one
C6_Witness == CacheLoaded /\ SeveralCaches(CodeOrder(props))

\* C6 as stated: the directories are examined in the order HOME, working
\* directory, data directory, user directory, and the first readable cache
\* file in that order is loaded.
C6_DocOrder ==
    (CacheLoaded /\ SeveralCaches(DocOrder(props))) =>
        /\ IsPrefix(examined, DocOrder(props))
        /\ loaded = FirstReadable(DocOrder(props))

\* what only the root may do
RootWork == {"files", "cache_lookup", "cache_read", "open", "scan", "cache_write",
             "bcast_send"}

\* every rank is back from a report that took part in the root's last broadcast
AllReturned ==
    /\ \A r \in Ranks : pc[r] = "idle" /\ ~IsEmpty(metadata[r])
    /\ \A r \in Ranks : recvd[r] = Len(chan)

C5_WitnessScan ==
    /\ n_ranks = 3 /\ AllReturned /\ mods = 1 /\ Len(chan) = 2
    /\ "scan" \in effects[n_ranks - 1]
    /\ effects[1] = {"bcast_recv"}

\* the reader has just executed the request on reported metadata
Executed == lastOp.op = "execute" /\ ~IsEmpty(metadata[0])

\* the steps of the files before file f (0 based)
StepsBefore(step_count, f) == SumSeq(SubSeq(step_count, 1, f))

\* C1: for a time step i below number_of_time_steps, execute reads from the
\* one file f whose cumulative step range contains i, at the local step
\* o = i - sum(step_count[0..f-1]), with 0 <= o < step_count[f].
C1_FileAndOffset ==
    (Executed /\ ~out.null /\ out.time_step < metadata[0].number_of_time_steps) =>
        /\ out.file_index \in 0..(Len(metadata[0].step_count) - 1)
        /\ out.offs = out.time_step - StepsBefore(metadata[0].step_count, out.file_index)
        /\ 0 <= out.offs
        /\ out.offs < metadata[0].step_count[out.file_index + 1]
        /\ \A f \in 0..(Len(metadata[0].step_count) - 1) :
              (/\ StepsBefore(metadata[0].step_count, f) <= out.time_step
               /\ out.time_step < StepsBefore(metadata[0].step_count, f + 1))
                 <=> f = out.file_index

\* the first step of the second file was read, the first file holding two
C1_Witness ==
    /\ Executed /\ ~out.null
    /\ Len(metadata[0].step_count) = 2 /\ metadata[0].step_count[1] = 2
    /\ out.time_step = 2 /\ out.file_index = 1 /\ out.offs = 0

\* every step of the dataset is resolved: no accepted step below
\* number_of_time_steps is refused
C1_WitnessLast ==
    /\ Executed /\ ~out.null
    /\ out.time_step = metadata[0].number_of_time_steps - 1
    /\ out.time_step = 3

\* C10 as stated: when an array of the request is not among the reported
\* attributes, or its read fails, execute returns no dataset; a mesh returned
\* holds every array of the request.
C10_AllArraysOrNothing ==
    (Executed /\ ~out.null) =>
        \A a \in Range(AttOr(request, "arrays", <<>>)) :
            a \in (DOMAIN out.point_arrays) \cup (DOMAIN out.info_arrays)

\* the properties whose values the two configurations differ in
Differing == {name \in PropNames : props[name] # other[name]}

\* the properties packed into the key, lines 289-304
HashedProps ==
    {"files_regex", "file_names", "x_axis_variable", "y_axis_variable",
     "z_axis_variable", "t_axis_variable", "t_units", "t_calendar", "t_values",
     "filename_time_template", "periodic_in_x", "periodic_in_y", "periodic_in_z"}

\* both configurations work on the same file list and differ in one property
OneDifference ==
    /\ keys.computed /\ keys.a.located /\ keys.b.located
    /\ keys.a.files = keys.b.files
    /\ Cardinality(Differing) = 1

\* C7 as amended: two configurations with caching enabled over the same path
\* and file list that differ in one property have different cache keys when
\* that property is one of files_regex, file_names, the four axis variables,
\* t_units, t_calendar, t_values, filename_time_template and periodic_in_x/y/z,
\* and the same key when it is thread_pool_size or metadata_cache_dir; with
\* cache_metadata = 0 no key is computed.
C7_HashedProps ==
    OneDifference =>
        /\ keys.a.has = (props.cache_metadata # 0)
        /\ keys.b.has = (other.cache_metadata # 0)
        /\ (keys.a.has /\ keys.b.has) =>
              (keys.a.key # keys.b.key <=> Differing \subseteq HashedProps)

\* the same files, named in one configuration and matched in the other
C7_Witness ==
    /\ OneDifference /\ keys.a.has /\ keys.b.has
    /\ Differing = {"file_names"}
    /\ keys.a.key # keys.b.key

\* the calendars differ
C7_WitnessCalendar ==
    /\ OneDifference /\ keys.a.has /\ keys.b.has
    /\ Differing = {"t_calendar"}

\* C7 as stated: two configurations over the same path and file list that
\* differ in the value of one property, whichever it is, have different keys.
C7_AnyProperty ==
    OneDifference => keys.a # keys.b

\* the stage has translated a request into an upstream request
Translated == st.op \in {"request", "execute"} /\ st.up # <<>>

\* C8 as stated: the upstream request of teca_vorticity and of
\* teca_vertical_integral names in `arrays` every array the stage's execute
\* reads, and not the array the stage produces, whether the names come from
\* the stage's properties or from keys of the request.
C8_UpstreamArrays ==
    (Translated /\ stcfg.alg \in {"vorticity", "vertical_integral"}) =>
        /\ StageReads(stcfg, st.req) \subseteq Range(st.up[1].arrays)
        /\ StageProduces(stcfg, st.req) \cap Range(st.up[1].arrays) = {}

\* C9 as stated: a report that logs an error returns empty metadata, in the
\* transform stages and in the reader.
C9_ErrorsReturnEmpty ==
    /\ (st.op = "report" /\ st.error) => IsEmpty(st.out)
    /\ (Reported(0) /\ "error" \in effects[0]) => IsEmpty(ret[0])

\* the request for the same step and arrays with the region given as bounds,
\* and as an extent
WithBounds(req, b) == MdSet(MdRemove(req, "extent"), "bounds", b)

WithExtent(req, e) == MdSet(MdRemove(req, "bounds"), "extent", e)

\* the coordinates the reader holds
CoordBounds(e) ==
    ExtentBounds(e, metadata[0].coordinates.x, metadata[0].coordinates.y,
                 metadata[0].coordinates.z)

\* the mesh returned is the one execute returns for the request other
SameMeshAs(other_req) ==
    \E e \in BOOLEAN :
        /\ out = ExecuteReader(props, metadata[0], nc, request, e)
        /\ out = ExecuteReader(props, metadata[0], nc, other_req, e)

\* C11: a request with extent E and the request with bounds B, B being the
\* coordinates at the corners of E, return equal meshes: the same extent,
\* bounds, coordinate slices and arrays; checked from the request with the
\* extent and from the request with the bounds.
C11_BoundsAsExtent ==
    /\ (Executed /\ Has(request, "extent") /\ ~Has(request, "bounds"))
          => SameMeshAs(WithBounds(request, CoordBounds(request.extent)))
    /\ (Executed /\ Has(request, "bounds") /\ ~out.null
            /\ request.bounds = CoordBounds(out.extent))
          => SameMeshAs(WithExtent(request, out.extent))

\* a part of the mesh with two pressure levels, the axis descending, was
\* asked for by extent and read
C11_Witness ==
    /\ Executed /\ ~out.null
    /\ Has(request, "extent") /\ request.extent = <<0, 2, 1, 1, 0, 1>>
    /\ out.bounds = <<0, 20, 10, 10, 1000, 500>>
    /\ "Q" \in DOMAIN out.point_arrays /\ out.z = <<1000, 500>>

\* a part of the mesh was asked for by the bounds of its corners and read
C11_WitnessBounds ==
    /\ Executed /\ ~out.null
    /\ Has(request, "bounds") /\ request.bounds = CoordBounds(out.extent)
    /\ out.extent = <<1, 2, 0, 1, 0, 1>>

\* the number of points of an extent
ExtentSize(e) == (e[2] - e[1] + 1) * (e[4] - e[3] + 1) * (e[6] - e[5] + 1)

C12_WitnessNoYZ ==
    /\ Executed /\ ~out.null
    /\ props.y_axis_variable = "" /\ props.z_axis_variable = ""
    /\ out.extent = <<1, 2, 0, 0, 0, 0>>
    /\ "Tx" \in DOMAIN out.point_arrays /\ out.point_arrays["Tx"] = 2

\* the files the reader works on, as they are on disk
ReaderFiles == FilesOf(nc, LocateFiles(props, nc).files)

\* a report of the from-files strategy has returned
ReportedFromFiles ==
    Reported(0) /\ Strategy(props) = "files" /\ LocateFiles(props, nc).ok

\* two files disagree on the calendar: their calendars differ, or one carries
\* a calendar and the other does not
CalendarsDisagree ==
    \E i, j \in 1..Len(ReaderFiles) : ReaderFiles[i].calendar # ReaderFiles[j].calendar

\* C13: in the from-files strategy the report returns empty metadata whenever
\* the calendar attributes of the files disagree: a file's calendar differs
\* from another file's, or some files carry a calendar and others none.
C13_CalendarsDisagree ==
    (ReportedFromFiles /\ CalendarsDisagree) => IsEmpty(ret[0])

\* two files of different calendars were scanned and the report failed
C13_Witness ==
    /\ ReportedFromFiles /\ "scan" \in effects[0] /\ "error" \in effects[0]
    /\ Len(nc) = 2 /\ nc[1].calendar = "noleap" /\ nc[2].calendar = "standard"
    /\ nc[1].n > 0 /\ nc[2].n > 0 /\ nc[1].units = nc[2].units
    /\ props.t_calendar = "" /\ IsEmpty(ret[0])

\* the first file carries no calendar and the second does
C13_WitnessNone ==
    /\ ReportedFromFiles /\ "scan" \in effects[0] /\ "error" \in effects[0]
    /\ Len(nc) = 2 /\ nc[1].calendar = "" /\ nc[2].calendar = "standard"
    /\ nc[1].n > 0 /\ nc[2].n > 0 /\ nc[1].units = nc[2].units
    /\ props.t_calendar = "" /\ IsEmpty(ret[0])

\* C18: after a successful report, under each of the four time axis
\* strategies, step_count has one entry per file, every entry is at least 1
\* and the entries sum to number_of_time_steps.
C18_StepCount ==
    (Reported(0) /\ ~IsEmpty(ret[0])) =>
        /\ Len(ret[0].step_count) = Len(ret[0].files)
        /\ \A i \in 1..Len(ret[0].step_count) : ret[0].step_count[i] >= 1
        /\ SumSeq(ret[0].step_count) = ret[0].number_of_time_steps

\* a report from two files holding two steps and one step
C18_Witness ==
    /\ Reported(0) /\ ~IsEmpty(ret[0]) /\ Strategy(props) = "files"
    /\ ret[0].step_count = <<2, 1>> /\ ret[0].number_of_time_steps = 3

\* a report from two files with two time values given
C18_WitnessValues ==
    /\ Reported(0) /\ ~IsEmpty(ret[0]) /\ Strategy(props) = "values"
    /\ ret[0].step_count = <<1, 1>> /\ ret[0].number_of_time_steps = 2

\* a report from two files with the time inferred from the names
C18_WitnessNames ==
    /\ Reported(0) /\ ~IsEmpty(ret[0]) /\ Strategy(props) = "names"
    /\ ret[0].step_count = <<1, 1>>

\* a report from two files with the synthetic axis
C18_WitnessSynthetic ==
    /\ Reported(0) /\ ~IsEmpty(ret[0]) /\ Strategy(props) = "synthetic"
    /\ ret[0].step_count = <<1, 1>>

\* the units the time axis is reported in
BaseUnits == AttOr(BaseTimeAtts(props, ReaderFiles[1]), "units", "")

\* the time values of the files one after another in the order of the files
InFileOrder ==
    Flatten([i \in 1..Len(ReaderFiles) |-> FileTimeIn(i, ReaderFiles[i], BaseUnits)])

\* C19: in the from-files strategy, whatever order the tasks of the thread
\* pool complete in, the reported time axis is the concatenation of the
\* files' time values in file order and step_count[i] is the number of values
\* of file i; when a file's task yields no array or no value the report
\* returns empty metadata.
C19_FileOrder ==
    ReportedFromFiles =>
        /\ (\E i \in 1..Len(ReaderFiles) : ReaderFiles[i].n = 0) => IsEmpty(ret[0])
        /\ (~IsEmpty(ret[0]) /\ props.t_values = <<>>) =>
              /\ ret[0].coordinates.t = InFileOrder
              /\ ret[0].step_count = [i \in 1..Len(ReaderFiles) |-> ReaderFiles[i].n]

\* two files of different numbers of steps and different units were scanned
C19_Witness ==
    /\ ReportedFromFiles /\ "scan" \in effects[0] /\ ~IsEmpty(ret[0])
    /\ Len(nc) = 2 /\ nc[1].n = 1 /\ nc[2].n = 2
    /\ nc[1].units = "hours" /\ nc[2].units = "days"
    /\ ret[0].coordinates.t = <<264, 504, 528>>

\* the second file has no time values
C19_WitnessNoValues ==
    /\ ReportedFromFiles /\ "scan" \in effects[0] /\ "error" \in effects[0]
    /\ Len(nc) = 2 /\ nc[1].n = 1 /\ nc[2].n = 0 /\ IsEmpty(ret[0])

\* the stage has compared two datasets, neither of them empty
Compared == st.op = "diff" /\ ~DatasetEmpty(st.ds0) /\ ~DatasetEmpty(st.ds1)

\* the sizes or the element types of two arrays differ
Unlike(array1, array2) ==
    Len(array1.vals) # Len(array2.vals) \/ array1.type # array2.type

\* C14: teca_dataset_diff is reflexive: a table or cartesian mesh that is not
\* empty compared with a copy of itself gives no difference (compare_tables,
\* compare_cartesian_meshes and compare_arrays return 0) for every tolerance
\* >= 0; tables of different column or row counts, and arrays of different
\* sizes or element types, always give a difference.
C14_Reflexive ==
    /\ (Compared /\ st.ds0 = st.ds1) => (st.result = 0 /\ ~st.error)
    /\ (st.op = "compare_arrays" /\ st.array1 = st.array2) => st.result = 0
    /\ (Compared /\ st.ds0.class = "table"
            /\ (\/ Len(st.ds0.cols) # Len(st.ds1.cols)
                \/ NumberOfRows(st.ds0) # NumberOfRows(st.ds1)))
          => (st.result = -1 /\ st.error)
    /\ (st.op = "compare_arrays" /\ Unlike(st.array1, st.array2)) => st.result = -1
    /\ (Compared /\ st.ds0.class = "table" /\ Len(st.ds0.cols) = Len(st.ds1.cols)
            /\ \E col \in 1..Len(st.ds0.cols) : Unlike(st.ds0.cols[col], st.ds1.cols[col]))
          => st.result = -1
    /\ (Compared /\ st.ds0.class = "cartesian_mesh" /\ Unlike(st.ds0.x, st.ds1.x))
          => st.result = -1

\* a mesh holding a NaN was compared with its copy with no tolerance
C14_Witness ==
    /\ Compared /\ st.ds0 = st.ds1 /\ stcfg.tolerance = 0
    /\ st.ds0.class = "cartesian_mesh"
    /\ DOMAIN st.ds0.arrays["point"] = {"T"}
    /\ st.ds0.arrays["point"]["T"].vals = <<NaN, 100>>
    /\ st.result = 0

\* a table of two columns, one of strings, was compared with its copy
C14_WitnessTable ==
    /\ Compared /\ st.ds0 = st.ds1 /\ st.ds0.class = "table"
    /\ Len(st.ds0.cols) = 2 /\ st.ds0.cols[2].type = "string" /\ st.result = 0

\* an array of ints and an array of doubles of the same values were compared
C14_WitnessTypes ==
    /\ st.op = "compare_arrays" /\ st.array1.type = "int" /\ st.array2.type = "double"
    /\ st.array1.vals = <<100, 100>> /\ st.array2.vals = st.array1.vals
    /\ st.result = -1

\* an option check of main fails on the options o
FlagsViolated(o) ==
    \/ ~((o.input_file /\ ~o.input_regex) \/ (~o.input_file /\ o.input_regex))
    \/ (o.compute_ivt /\ o.compute_ivt_magnitude)

\* C15: teca_bayesian_ar_detect exits with a non-zero status and does not reach
\* cf_writer->update() whenever not exactly one of --input_file and
\* --input_regex is given, or --compute_ivt is given with
\* --compute_ivt_magnitude.
C15_ExclusiveFlags ==
    (st.op = "main" /\ FlagsViolated(st.opts))
        => (st.how = "exit" /\ st.status # 0 /\ ~st.updated)

\* C16: teca_bayesian_ar_detect exits 0 only when the pipeline update
\* succeeded; when the run started by cf_writer->update() fails the exit
\* status is not 0.
C16_ExitStatus ==
    st.op = "main" =>
        /\ (st.how = "exit" /\ st.status = 0) => (st.updated /\ ~st.failed)
        /\ (st.updated /\ st.failed) => (st.how = "exit" /\ st.status # 0)

\* every rank has run its part of the indices
AllRan == st.op = "executive" /\ st.ran = Ranks

\* the indices requested by the ranks
RequestedIndices == {q[2] : q \in st.requests}

\* C17: for N >= 0 work indices and P >= 1 ranks the block partition that gives
\* rank r the indices [r*N/P, (r+1)*N/P) assigns every index of 0..N-1 to
\* exactly one rank, so that the indices a P-rank run produces outputs for are
\* those of a 1-rank run; no rank is given an index outside 0..N-1.
C17_Partition ==
    st.op = "executive" =>
        /\ RequestedIndices \subseteq 0..(st.N - 1)
        /\ \A q1, q2 \in st.requests : q1[2] = q2[2] => q1[1] = q2[1]
        /\ AllRan => RequestedIndices = block(0, st.N, 1)
        /\ AllRan => \A i \in 0..(st.N - 1) :
                        Cardinality({r \in Ranks : <<r, i>> \in st.requests}) = 1

\* three ranks have run blocks of unequal sizes
C17_Witness ==
    /\ AllRan /\ n_ranks = 3 /\ st.N = 7
    /\ st.requests = {<<0, 0>>, <<0, 1>>, <<1, 2>>, <<1, 3>>,
                      <<2, 4>>, <<2, 5>>, <<2, 6>>}

\* fewer indices than ranks: a rank has no index
C17_WitnessFew ==
    /\ AllRan /\ n_ranks = 3 /\ st.N = 2 /\ Cardinality(st.requests) = 2

\* directory d holds a cache file of the reader's key that cannot be read
UnreadableIn(d) ==
    /\ LocateFiles(props, nc).ok
    /\ FileExists(disk, d, CacheKey(props, PATH, LocateFiles(props, nc).files))
    /\ ~disk[d][CacheKey(props, PATH, LocateFiles(props, nc).files)].readable

\* the metadata a reader of the same properties with caching disabled reports
UncachedReports ==
    {RootReport([props EXCEPT !.cache_metadata = 0], nc, disk, writable, order).md :
        order \in TaskOrders}

\* the step is a report of the root that looks for a cache file
LooksForCache ==
    /\ IsEmpty(metadata[0]) /\ lastOp'.op = "report" /\ lastOp'.rank = 0
    /\ props.cache_metadata # 0 /\ LocateFiles(props, nc).ok

\* C20: a lookup that meets a cache file it cannot read goes on to the next
\* search directory; when no directory holds a readable cache file the reader
\* scans the files, and the report returns the metadata a reader with caching
\* disabled reports (not empty when that one succeeds).
C20_Unreadable ==
    [][LooksForCache =>
        /\ \A j \in 1..Len(examined') :
              (UnreadableIn(examined'[j]) /\ j < Len(CodeOrder(props))) =>
                  /\ Len(examined') > j
                  /\ examined'[j + 1] = CodeOrder(props)[j + 1]
        /\ (\A d \in Range(CodeOrder(props)) : ~ReadableIn(d)) =>
              /\ loaded' = -1
              /\ examined' = CodeOrder(props)
              /\ "open" \in effects'[0]
              /\ UncachedReports = {ret'[0]}]_vars

\* the only cache file could not be read: the report scanned the files and
\* returned their metadata
C20_Witness ==
    /\ Reported(0) /\ "cache_lookup" \in effects[0] /\ "scan" \in effects[0]
    /\ loaded = -1 /\ ~IsEmpty(ret[0])
    /\ UnreadableIn(ROOT_DIR)
    /\ examined = CodeOrder(props)

\* the first cache file could not be read and the next directory's was loaded
C20_WitnessNext ==
    /\ CacheLoaded /\ loaded = CWD_DIR /\ UnreadableIn(ROOT_DIR)
    /\ IsPrefix(<<ROOT_DIR, CWD_DIR>>, examined)

\* the calendar check of lines 675-685 fails on a file the reader works on
CalendarCheckFails ==
    \E i \in 1..Len(ReaderFiles) :
        CalendarMismatch(Has(BaseTimeAtts(props, ReaderFiles[1]), "calendar"),
                         AttOr(BaseTimeAtts(props, ReaderFiles[1]), "calendar", "standard"),
                         ReaderFiles[i])

\* every file has time values, in the units of the first file
FilesAlike ==
    \A i \in 1..Len(ReaderFiles) :
        ReaderFiles[i].n > 0 /\ ReaderFiles[i].units = ReaderFiles[1].units

\* C21: in the from-files strategy, when all files carry the same calendar or
\* none carries one, the calendar check does not fail, also with the calendar
\* overridden by t_calendar: a report on files that are otherwise alike
\* succeeds.
C21_SameCalendar ==
    (ReportedFromFiles /\ ~CalendarsDisagree) =>
        /\ ~CalendarCheckFails
        /\ (FilesAlike /\ props.t_units = "") => ~IsEmpty(ret[0])

\* a report of the user-supplied time values strategy has returned
ReportedFromValues ==
    Reported(0) /\ Strategy(props) = "values" /\ LocateFiles(props, nc).ok

\* C22: with t_axis_variable empty and t_values given the report succeeds only
\* if t_calendar and t_units are both set and there are as many values as
\* files, and returns empty metadata otherwise; on success the reported time
\* axis is t_values and every file contributes one step.
C22_UserValues ==
    ReportedFromValues =>
        /\ (\/ props.t_calendar = "" \/ props.t_units = ""
            \/ Len(props.t_values) # Len(LocateFiles(props, nc).files))
              => IsEmpty(ret[0])
        /\ ~IsEmpty(ret[0]) =>
              /\ ret[0].coordinates.t = props.t_values
              /\ ret[0].step_count = [i \in 1..Len(ret[0].files) |-> 1]
              /\ ret[0].attributes["time"].calendar = props.t_calendar
              /\ ret[0].attributes["time"].units = props.t_units

\* two values were given for two files, with calendar and units
C22_Witness ==
    /\ ReportedFromValues /\ ~IsEmpty(ret[0]) /\ Len(ret[0].files) = 2
    /\ ret[0].coordinates.t = props.t_values /\ Len(props.t_values) = 2

\* values were given without a calendar and the report failed
C22_WitnessNoCalendar ==
    /\ ReportedFromValues /\ IsEmpty(ret[0]) /\ props.t_calendar = ""
    /\ props.t_units # "" /\ Len(props.t_values) = Len(nc)

\* the request made of input k carries the index under the input's own key
\* and the other keys of the downstream request
UpstreamOf(req, up_req, request_key) ==
    /\ Has(up_req, request_key) /\ up_req[request_key] = req.test_id
    /\ Has(up_req, "index_request_key") /\ up_req.index_request_key = request_key
    /\ request_key # "test_id" => ~Has(up_req, "test_id")
    /\ \A key \in (DOMAIN req) \ {request_key, "test_id", "index_request_key"} :
          Has(up_req, key) /\ up_req[key] = req[key]
    /\ DOMAIN up_req \subseteq (DOMAIN req) \cup {request_key, "index_request_key"}

\* C23: teca_dataset_diff::get_upstream_request returns no request (on error)
\* or two, one per input; the request of input k holds test_id under the
\* input's index_request_key R_k, has index_request_key = R_k, does not carry
\* the key test_id the stage alone consumes, and keeps every other key of the
\* downstream request.
C23_TwoRequests ==
    st.op = "diff_request" =>
        \/ st.up = <<>> /\ st.error
        \/ /\ Len(st.up) = 2 /\ ~st.error
           /\ \A k \in 1..2 :
                 UpstreamOf(st.req, st.up[k], st.input_md[k].index_request_key)

\* teca_vertical_integral has translated a request
IntegralRequested ==
    st.op = "request" /\ stcfg.alg = "vertical_integral" /\ st.up # <<>>

\* the keys of the region of a request
RegionKeys == {"bounds", "extent", "whole_extent"}

\* C24: the upstream request of teca_vertical_integral is the downstream
\* request with arrays replaced by the augmented set (the requested arrays
\* and the arrays the stage reads, without the stage's output) and without
\* the keys bounds, extent and whole_extent; every other key, the index
\* request key with its value among them, is passed on unchanged.
C24_RequestFrame ==
    IntegralRequested =>
        /\ Len(st.up) = 1
        /\ DOMAIN st.up[1] = ((DOMAIN st.req) \ RegionKeys) \cup {"arrays"}
        /\ \A key \in (DOMAIN st.up[1]) \ {"arrays"} : st.up[1][key] = st.req[key]
        /\ Range(st.up[1].arrays) =
              (ArraysOf(st.req) \cup Range(vertical_integral_names(stcfg)))
                  \ {stcfg.output_variable_name}
        /\ Len(st.up[1].arrays) = Cardinality(Range(st.up[1].arrays))

\* a request with bounds and an array was translated
C24_Witness ==
    /\ IntegralRequested /\ Has(st.req, "bounds") /\ ~Has(st.up[1], "bounds")
    /\ st.up[1].time_step = 0 /\ "T" \in Range(st.up[1].arrays)
    /\ "Q" \in Range(st.up[1].arrays)

\* a request for the stage's output was translated
C24_WitnessOutput ==
    /\ IntegralRequested /\ "Q_int" \in ArraysOf(st.req)
    /\ stcfg.output_variable_name = "Q_int" /\ "Q_int" \notin Range(st.up[1].arrays)

\* C25: for every request execute does not reject with an invalid time step,
\* the step offset the file is read at lies within the steps of that file:
\* offs < step_count[file_index], also on a dataset of one time step asked
\* for a time_step >= 1.
C25_OffsetInFile ==
    (Executed /\ ~out.null) =>
        /\ out.file_index \in 0..(Len(metadata[0].step_count) - 1)
        /\ out.offs < metadata[0].step_count[out.file_index + 1]

\* C26: on P > 1 ranks get_output_metadata eventually returns on every rank,
\* also when the scan of the root rank fails: every rank has called and is
\* back in the end, none waits in the metadata broadcast for ever.
C26_EveryRankReturns ==
    <>(st.called = Ranks /\ \A r \in Ranks : pc[r] = "idle")

\* teca_vorticity has executed a request and returned a mesh
VorticityExecuted ==
    st.op = "execute" /\ stcfg.alg = "vorticity" /\ ~st.out.null

\* the arrays the stage attached to the mesh it was given
Attached == (DOMAIN st.out.point_arrays) \ (DOMAIN out.point_arrays)

\* the names get_output_metadata adds to the variables of the metadata md
AppendedBy(cfg, md) == get_output_metadata(cfg, md).md.variables \ md.variables

\* C27: for every setting of vorticity_variable the name get_output_metadata
\* appends to variables is the name under which execute attaches the array
\* and the name erased from the upstream request; every other key of the
\* input metadata is reported unchanged.
C27_OneName ==
    /\ (VorticityExecuted /\ Has(metadata[0], "variables")) =>
          /\ Attached = AppendedBy(stcfg, metadata[0])
          /\ Attached \cap Range(st.up[1].arrays) = {}
    /\ (st.op = "report" /\ stcfg.alg = "vorticity") =>
          /\ DOMAIN st.out = DOMAIN st.in
          /\ \A key \in (DOMAIN st.in) \ {"variables"} : st.out[key] = st.in[key]

\* the points on the boundary of a mesh of nx by ny points
BoundaryPoints(nx, ny) ==
    {j * nx + i : j \in {0, ny - 1}, i \in 0..(nx - 1)}
    \cup {j * nx + i : j \in 0..(ny - 1), i \in {0, nx - 1}}

\* C28: on a mesh of nx >= 1 by ny >= 1 points the kernel reads lat only at
\* 0..ny-1 and lon only at 0..nx-1 and reads and writes dx, dy, comp_0,
\* comp_1 and w inside their allocated sizes nx, ny and nx*ny, also with
\* nx > ny and with ny < 3; every boundary point of w is 0.
C28_InsideArrays ==
    st.op = "kernel" =>
        /\ \A a \in st.reads \cup st.writes :
              a.index < AllocatedSize(a.array, st.nx, st.ny)
        /\ st.returns => \A k \in BoundaryPoints(st.nx, st.ny) : ~st.w[k]

\* main has run without an input option: head is a null pointer
RanWithoutInput == st.op = "main" /\ head(st.opts) = "null"

\* C29: for every combination of flags the checks of the input flags come
\* before head is used: when neither --input_file nor --input_regex is given
\* no stage is connected to head's output port, also with --compute_ivt or
\* --compute_ivt_magnitude, and the program ends with the error of the check
\* and a non-zero status.
C29_ChecksBeforeHead ==
    RanWithoutInput =>
        (st.connected = {} /\ st.how = "exit" /\ st.status # 0)

\* the property holds value after the advanced option adv and the basic
\* option basic: the advanced value when only the advanced option is given,
\* the basic value when both are given
AdvancedKept(adv, basic, value) ==
    /\ (adv # NotGiven /\ basic = NotGiven) => value = adv[1]
    /\ (adv # NotGiven /\ basic # NotGiven) => value = basic[1]

\* C30: a stage property set through an advanced option
\* (ivt_integral.wind_u_variable, ivt_integral.wind_v_variable,
\* cf_reader.periodic_in_x) keeps that value in the configured pipeline
\* whenever the basic option (--wind_u, --wind_v, --periodic_in_x) is not
\* given; the basic option overrides it only when both are given.
C30_AdvancedKept ==
    st.op = "configure" =>
        /\ AdvancedKept(st.cmd.ivt_integral_wind_u_variable, st.cmd.wind_u,
                        st.ivt_int.wind_u_variable)
        /\ AdvancedKept(st.cmd.ivt_integral_wind_v_variable, st.cmd.wind_v,
                        st.ivt_int.wind_v_variable)
        /\ AdvancedKept(st.cmd.cf_reader_periodic_in_x, st.cmd.periodic_in_x,
                        st.cf_reader.periodic_in_x)

=============================================================================
